---- MODULE Spec2Model ----
(***************************************************************************)
(* Acquisition pipeline of the tribology experiment UI: the serial reader  *)
(* (serial_comm.py), the presentation layer's data callback               *)
(* (UI_experimento_livre_main.py) and the experiment data sink             *)
(* (data_manager.py).                                                      *)
(*                                                                         *)
(* A device line is modelled by the tagged fields it carries; the sink is  *)
(* modelled field by field; the file system is a map from log path to the  *)
(* file's content.  Optional values (a dict key that may be missing, a     *)
(* field that may be None) are sequences of length 0 or 1.                 *)
(***************************************************************************)
EXTENDS Integers, Sequences, FiniteSets, TLC

\* ------------------------------------------------------------------ bounds
\* Lines the device sends in one behaviour.
MaxLines == 3
\* Last value of the wall clock, in ticks.
MaxClock == 1
\* Ticks per second of the wall clock (datetime.now() has 10^6; strftime
\* "%Y%m%d_%H%M%S" keeps whole seconds only).
TicksPerSecond == 2
\* Largest Time: value a line carries.
MaxTime == 1
\* Floor of the live-buffer capacity.  The source's floor is 100
\* (max(100, int(plot_max_points))); it is scaled down here so that runs
\* longer than the capacity are reachable.
MinPlotPoints == 2
\* Lines one read of the link completes at most.
MaxChunk == 2
\* Runs started in one behaviour.
MaxRuns == 2
\* File operations (an open or a write of the log) the environment fails in
\* one behaviour.
MaxIoFailures == 1

\* Lines the device sends in one behaviour of the progress specification,
\* and the largest Time: value they carry, below zero and above (the
\* parser's [\d.-]+ takes a minus sign).
MaxProgressLines == 3
MaxNegativeTime == 1
MaxDeviceTime == 2
MinDeviceTime == 0 - MaxNegativeTime
\* Largest total_duration progress is asked with, of either sign.
MaxTotalDuration == 2
MinTotalDuration == 0 - MaxTotalDuration
\* Lines the device sends in one behaviour of the interleaving specification.
MaxRaceLines == 2
\* Reading tasks spawned, links opened and lines sent in one behaviour of the
\* reader specification.
MaxThreads == 3
MaxConnects == 3
MaxReaderLines == 2
\* Commands written to the link in one behaviour of the command specification.
MaxCommands == 1
\* Characters the device sends in one behaviour of the assembler
\* specification, and characters one read of the link delivers at most.
MaxStreamLen == 5
MaxChunkLen == 3
\* Tagged values in one line of the parser specification.
MaxFields == 2

\* Lines the device sends in one behaviour of the repeat specification, and
\* tagged values in its first line.
MaxRepeatLines == 3
MaxRepeatFields == 1

\* Lines the device sends in one behaviour of the batching specification:
\* one more than a batch of FlushEvery rows.
MaxFlushLines == 201
\* The last line whose write the environment may fail there.
MaxFailedLine == 2
\* Commands the presentation layer's handlers write to the link.
MaxGuiCommands == 2
\* Lines the device sends while the presentation layer's handlers run.
MaxGuiLines == 2

\* -------------------------------------------------------- program constants
\* self._flush_every
FlushEvery == 200

\* ------------------------------------------------------------------ values
None == <<>>
Some(v) == <<v>>
IsSet(o) == o # <<>>
Val(o) == o[1]

\* dict.get(key, default)
Get(o, default) == IF IsSet(o) THEN o ELSE default

\* config.get("data_settings", "sensor_source") or "simple_fixed"
DefaultSensorSource == "simple_fixed"

\* An empty pandas DataFrame / the four columns of the plotting view.
EmptyFrame == [time |-> <<>>, force_x |-> <<>>, force_z |-> <<>>, timestamp |-> <<>>]

VARIABLES
  \* --- DataManager
  plot_max_points, is_experiment_running, experiment_start_time,
  plot_time, plot_fx, plot_fz, plot_timestamp, current_data,
  live_csv_path, csv_file, csv_writer, rows_written,
  \* --- SerialCommunication
  buffer, data_queue,
  \* --- TribologyExperimentGUI
  sensor_source,
  \* --- environment: wall clock, file system, device
  now, files, open_count, lines_sent, runs_started, io_failures,
  \* --- history (not program state)
  plot_max_points_arg, stream, run_ingested, run_log,
  \* --- SerialCommunication: the link and the reading tasks
  serial_port, open_ports, is_connected, is_reading, read_thread, threads,
  \* --- the reading task inside add_data_point, statement by statement
  ingest_pc, ingest_data, ingest_cols,
  \* --- the presentation thread: its position inside a handler, and the
  \* snapshot it last took
  ui_pc, ui_snapshot,
  \* --- the owner's last calls: what connect() and send_command() returned,
  \* and the bytes written to each link that was opened
  connect_result, send_result, port_out,
  \* --- history of the text path: the line the device formatted, and the
  \* lines _read_data handed to _process_line
  device_line, emitted,
  \* --- TribologyExperimentGUI: its own run flag, its position inside a
  \* handler, and what the save action last did
  gui_is_experiment_running, gui_pc, save_result

sinkVars == <<plot_max_points, is_experiment_running, experiment_start_time,
              plot_time, plot_fx, plot_fz, plot_timestamp, current_data,
              live_csv_path, csv_file, csv_writer, rows_written>>
readerVars == <<buffer, data_queue>>
envVars == <<now, files, open_count, lines_sent, runs_started, io_failures>>
histVars == <<plot_max_points_arg, stream, run_ingested, run_log>>
linkVars == <<serial_port, open_ports, is_connected, is_reading, read_thread,
              threads>>
ingestVars == <<ingest_pc, ingest_data, ingest_cols>>
uiVars == <<ui_pc, ui_snapshot>>
threadVars == <<linkVars, ingestVars, uiVars>>
cmdVars == <<connect_result, send_result, port_out>>
textVars == <<device_line, emitted>>
guiVars == <<gui_is_experiment_running, gui_pc, save_result>>
vars == <<sinkVars, readerVars, sensor_source, envVars, histVars, threadVars,
          cmdVars, textVars, guiVars>>

\* ------------------------------------------------------------- device lines
\* The lines the device sends, by the tags they carry.  n is the line's
\* position in the stream and makes every force value distinct.  Experiment
\* data comes marked, with a time and the fixed-sensor tags; a reading outside
\* the experiment comes unmarked, here with the controlled-sensor X tag only;
\* status lines come marked or not.
MeasurementFixed(n, marker, t) ==
  [id |-> n, marker |-> marker, time |-> Some(t),
   fixed_x |-> Some(10 * n + 1), fixed_z |-> Some(10 * n + 2),
   fx |-> None, fz |-> None, keyword |-> FALSE]

MeasurementFxOnly(n, marker) ==
  [id |-> n, marker |-> marker, time |-> None,
   fixed_x |-> None, fixed_z |-> None,
   fx |-> Some(10 * n + 3), fz |-> None, keyword |-> FALSE]

StatusLine(n, marker) ==
  [id |-> n, marker |-> marker, time |-> None,
   fixed_x |-> None, fixed_z |-> None, fx |-> None, fz |-> None,
   keyword |-> TRUE]

InvalidLine(n) ==
  [id |-> n, marker |-> FALSE, time |-> None,
   fixed_x |-> None, fixed_z |-> None, fx |-> None, fz |-> None,
   keyword |-> FALSE]

DeviceLines(n) ==
  {MeasurementFixed(n, TRUE, t) : t \in 1..MaxTime}
    \cup {MeasurementFxOnly(n, FALSE)}
    \cup {StatusLine(n, m) : m \in BOOLEAN}
    \cup {InvalidLine(n)}

\* ------------------------------------------------------------------ parser
\* SerialCommunication.parse_data_line: the Reading of a line, or None.
ParseDataLine(line) ==
  LET force_x == IF IsSet(line.fixed_x) THEN line.fixed_x
                 ELSE IF IsSet(line.fx) THEN line.fx ELSE None
      force_z == IF IsSet(line.fixed_z) THEN line.fixed_z
                 ELSE IF IsSet(line.fz) THEN line.fz ELSE None
      data == [is_experiment |-> line.marker, raw |-> line.id,
               time |-> line.time,
               fixed_x |-> line.fixed_x, fixed_z |-> line.fixed_z,
               fx |-> line.fx, fz |-> line.fz,
               force_x |-> force_x, force_z |-> force_z,
               message |-> None, timestamp |-> None]
  IN  IF IsSet(force_x) \/ IsSet(force_z) THEN Some(data)
      ELSE IF line.keyword THEN Some([data EXCEPT !.message = Some(line.id)])
      ELSE None

\* A Reading with force_x or force_z set.
IsMeasurement(data) == IsSet(data.force_x) \/ IsSet(data.force_z)

\* ------------------------------------------------------ presentation remap
\* A callback that hands the Reading to the sink as the parser made it.
MappedRecordCanonical(data, source) == data

\* TribologyExperimentGUI.handle_serial_data: the record handed to the sink.
MappedRecord(data, source) ==
  LET preferred_fx == IF source = "free_sphere" THEN Get(data.fx, data.force_x)
                      ELSE Get(data.fixed_x, data.force_x)
      preferred_fz == IF source = "free_sphere" THEN Get(data.fz, data.force_z)
                      ELSE Get(data.fixed_z, data.force_z)
  IN  [data EXCEPT !.force_x = IF IsSet(preferred_fx) THEN preferred_fx ELSE @,
                   !.force_z = IF IsSet(preferred_fz) THEN preferred_fz ELSE @]

\* ------------------------------------------------------------- file system
LogPaths == 0..(MaxClock \div TicksPerSecond)

\* The file name the user picks in the save dialog when it is not the name of
\* a live log, and every path of the save directory.
SavePath == (MaxClock \div TicksPerSecond) + 1
FilePaths == LogPaths \cup {SavePath}

NoFile == [exists |-> FALSE, header |-> 0, rows |-> <<>>, flushed |-> 0]

\* open(filepath, "w") followed by writeheader(): created or truncated.
NewLog == [exists |-> TRUE, header |-> 1, rows |-> <<>>, flushed |-> 0]

\* strftime("%Y%m%d_%H%M%S") and the path built from it.
LivePath(t) == t \div TicksPerSecond

\* flush() / close() of an open log: every written row reaches the disk.
Flushed(fs, f) ==
  IF IsSet(f) THEN [fs EXCEPT ![Val(f)].flushed = Len(fs[Val(f)].rows)] ELSE fs

\* DataManager._close_live_csv: the file system and the open handles after.
FilesAfterClose == Flushed(files, csv_file)
OpenCountAfterClose == IF IsSet(csv_file) THEN open_count - 1 ELSE open_count

\* ------------------------------------------------------------ ring buffers
\* A ring buffer that, once full, drops the new entry instead of the oldest.
DequeAppendDropNewest(q, x, maxlen) ==
  IF Len(q) >= maxlen THEN q ELSE Append(q, x)

\* A buffer without maxlen: it never evicts.
DequeAppendUnbounded(q, x, maxlen) == Append(q, x)

\* collections.deque(maxlen=...).append
DequeAppend(q, x, maxlen) ==
  IF Len(q) >= maxlen THEN Append(Tail(q), x) ELSE Append(q, x)

\* max(100, int(plot_max_points)), with the floor scaled to MinPlotPoints.
PlotMaxPoints(arg) == IF arg > MinPlotPoints THEN arg ELSE MinPlotPoints

\* The plot_max_points arguments the sink is constructed with: one below the
\* floor, one above it.
PlotArgs == {MinPlotPoints - 1, MinPlotPoints + 1}

\* ------------------------------------------------------------------- Init
Init ==
  /\ plot_max_points_arg \in PlotArgs
  /\ plot_max_points = PlotMaxPoints(plot_max_points_arg)
  /\ is_experiment_running = FALSE
  /\ experiment_start_time = None
  /\ plot_time = <<>>
  /\ plot_fx = <<>>
  /\ plot_fz = <<>>
  /\ plot_timestamp = <<>>
  /\ current_data = EmptyFrame
  /\ live_csv_path = None
  /\ csv_file = None
  /\ csv_writer = None
  /\ rows_written = 0
  /\ buffer = <<>>
  /\ data_queue = <<>>
  /\ sensor_source = DefaultSensorSource
  /\ now = 0
  /\ files = [p \in FilePaths |-> NoFile]
  /\ open_count = 0
  /\ lines_sent = 0
  /\ runs_started = 0
  /\ io_failures = 0
  /\ stream = <<>>
  /\ run_ingested = <<>>
  /\ run_log = None
  /\ serial_port = None
  /\ open_ports = <<>>
  /\ is_connected = FALSE
  /\ is_reading = FALSE
  /\ read_thread = None
  /\ threads = <<>>
  /\ ingest_pc = "idle"
  /\ ingest_data = None
  /\ ingest_cols = <<>>
  /\ ui_pc = "idle"
  /\ ui_snapshot = None
  /\ connect_result = None
  /\ send_result = None
  /\ port_out = <<>>
  /\ device_line = None
  /\ emitted = <<>>
  /\ gui_is_experiment_running = FALSE
  /\ gui_pc = "idle"
  /\ save_result = None

\* --------------------------------------------------------------- DataManager
\* The CSV row add_data_point builds, in the column order of the header.
Row(data) ==
  [timestamp |-> data.timestamp, is_experiment |-> data.is_experiment,
   time |-> data.time, force_x |-> data.force_x, force_z |-> data.force_z,
   fixed_x |-> data.fixed_x, fixed_z |-> data.fixed_z,
   fx |-> data.fx, fz |-> data.fz, raw |-> data.raw, message |-> data.message]

\* A sink that plots every measurement, marked or not, and no status line.
PushesMeasurements(data) == IsSet(data.force_x) \/ IsSet(data.force_z)

\* Whether add_data_point pushes the record into the plotting buffers.
PushesToPlot(data) == data.is_experiment

\* The record after add_data_point stamped it.
Stamped(data) == [data EXCEPT !.timestamp = Get(@, Some(now))]

\* DataManager.start_experiment, with _open_live_csv and _close_live_csv.
\* open_ok is the environment's answer to open(filepath, "w"); when it raises,
\* the exception leaves start_experiment after the state was already reset.
DataManagerStartExperiment(open_ok) ==
  LET path == LivePath(now)
      closed == FilesAfterClose
  IN  /\ runs_started < MaxRuns
      /\ runs_started' = runs_started + 1
      /\ experiment_start_time' = Some(now)
      /\ is_experiment_running' = TRUE
      /\ plot_time' = <<>>
      /\ plot_fx' = <<>>
      /\ plot_fz' = <<>>
      /\ plot_timestamp' = <<>>
      /\ current_data' = EmptyFrame
      /\ live_csv_path' = Some(path)
      /\ IF open_ok
           THEN /\ files' = [closed EXCEPT ![path] = NewLog]
                /\ csv_file' = Some(path)
                /\ csv_writer' = Some(path)
                /\ rows_written' = 0
                /\ open_count' = OpenCountAfterClose + 1
                /\ io_failures' = io_failures
                /\ run_log' = Some(path)
           ELSE /\ io_failures < MaxIoFailures
                /\ io_failures' = io_failures + 1
                /\ files' = closed
                /\ csv_file' = None
                /\ csv_writer' = None
                /\ rows_written' = rows_written
                /\ open_count' = OpenCountAfterClose
                /\ run_log' = None
      /\ run_ingested' = <<>>
      /\ UNCHANGED <<plot_max_points, readerVars, sensor_source, cmdVars, textVars, now,
                     lines_sent, plot_max_points_arg, stream, threadVars>>

\* start_experiment called while no TribologyExperimentGUI handler is
\* under way.
StartExperiment(open_ok) ==
  DataManagerStartExperiment(open_ok) /\ UNCHANGED guiVars

\* A stop that leaves the log open.
StopExperimentKeepsLogOpen ==
  /\ is_experiment_running' = FALSE
  /\ UNCHANGED <<plot_max_points, experiment_start_time, plot_time, plot_fx,
                 plot_fz, plot_timestamp, current_data, live_csv_path, csv_file,
                 csv_writer, rows_written, readerVars, sensor_source, cmdVars, textVars, envVars,
                 histVars, threadVars, guiVars>>

\* DataManager.stop_experiment, with _close_live_csv.
DataManagerStopExperiment ==
  /\ is_experiment_running' = FALSE
  /\ files' = FilesAfterClose
  /\ open_count' = OpenCountAfterClose
  /\ csv_file' = None
  /\ csv_writer' = None
  /\ UNCHANGED <<plot_max_points, experiment_start_time, plot_time, plot_fx,
                 plot_fz, plot_timestamp, current_data, live_csv_path,
                 rows_written, readerVars, sensor_source, cmdVars, textVars, now, lines_sent,
                 runs_started, io_failures, plot_max_points_arg, stream,
                 run_ingested, run_log, threadVars>>

\* stop_experiment called while no TribologyExperimentGUI handler is under
\* way.
StopExperiment == DataManagerStopExperiment /\ UNCHANGED guiVars

\* A clear that keeps the published snapshot.
ClearCurrentDataKeepsSnapshot ==
  /\ is_experiment_running' = FALSE
  /\ plot_time' = <<>>
  /\ plot_fx' = <<>>
  /\ plot_fz' = <<>>
  /\ plot_timestamp' = <<>>
  /\ files' = FilesAfterClose
  /\ open_count' = OpenCountAfterClose
  /\ csv_file' = None
  /\ csv_writer' = None
  /\ live_csv_path' = None
  /\ rows_written' = 0
  /\ run_ingested' = <<>>
  /\ run_log' = None
  /\ UNCHANGED <<plot_max_points, experiment_start_time, current_data,
                 readerVars, sensor_source, cmdVars, textVars, now, lines_sent, runs_started,
                 io_failures, plot_max_points_arg, stream, threadVars,
                 guiVars>>

\* DataManager.clear_current_data, with _close_live_csv.
DataManagerClearCurrentData ==
  /\ current_data' = EmptyFrame
  /\ is_experiment_running' = FALSE
  /\ plot_time' = <<>>
  /\ plot_fx' = <<>>
  /\ plot_fz' = <<>>
  /\ plot_timestamp' = <<>>
  /\ files' = FilesAfterClose
  /\ open_count' = OpenCountAfterClose
  /\ csv_file' = None
  /\ csv_writer' = None
  /\ live_csv_path' = None
  /\ rows_written' = 0
  /\ run_ingested' = <<>>
  /\ run_log' = None
  /\ UNCHANGED <<plot_max_points, experiment_start_time, readerVars,
                 sensor_source, cmdVars, textVars, now, lines_sent, runs_started,
                 io_failures, plot_max_points_arg, stream, threadVars>>

\* clear_current_data called while no TribologyExperimentGUI handler is
\* under way.
ClearCurrentData == DataManagerClearCurrentData /\ UNCHANGED guiVars

\* A sink that takes records whether or not a run is open.
AcceptsDataAlways == TRUE

\* The guard of add_data_point: it returns at once unless a run is open.
AcceptsData == is_experiment_running

\* A row counter advanced before writerow() is attempted.
CountBeforeWrite(n, fail) == n + 1

\* self._rows_written after the try block: the increment follows writerow(),
\* so a write that raises skips it.
CountAfterWrite(n, fail) == IF fail THEN n ELSE n + 1

\* A log that takes a row for measurement Readings only.
LogAfterWriteMeasurementsOnly(f, data, n) ==
  IF IsSet(data.message) THEN f ELSE [f EXCEPT !.rows = Append(@, data)]

\* A log that is flushed only when it is closed.
LogAfterWriteNoFlush(f, data, n) == [f EXCEPT !.rows = Append(@, Row(data))]

\* writerow(row), the row counter's increment n and the flush every
\* FlushEvery rows: the log file after them.
LogAfterWrite(f, data, n) ==
  LET written == [f EXCEPT !.rows = Append(@, Row(data))]
  IN  IF n % FlushEvery = 0 THEN [written EXCEPT !.flushed = Len(written.rows)]
      ELSE written

\* DataManager.add_data_point.  fail is the environment's answer to
\* writerow(): when it raises, the exception is swallowed.
AddDataPoint(record, fail) ==
  IF ~AcceptsData
    THEN /\ ~fail
         /\ UNCHANGED <<sinkVars, now, files, open_count, io_failures,
                        run_ingested, run_log>>
    ELSE
      LET data == Stamped(record)
          t == Val(Get(data.time, Some(0)))
      IN  /\ IF IsSet(csv_writer)
               THEN IF fail
                 THEN /\ io_failures < MaxIoFailures
                      /\ io_failures' = io_failures + 1
                      /\ rows_written' = CountAfterWrite(rows_written, TRUE)
                      /\ UNCHANGED files
                 ELSE /\ rows_written' = CountAfterWrite(rows_written, FALSE)
                      /\ files' = [files EXCEPT ![Val(csv_file)] =
                                      LogAfterWrite(@, data, rows_written')]
                      /\ UNCHANGED io_failures
               ELSE /\ ~fail
                    /\ UNCHANGED <<files, rows_written, io_failures>>
          /\ IF PushesToPlot(data)
               THEN /\ plot_time' = DequeAppend(plot_time, t, plot_max_points)
                    /\ plot_fx' = DequeAppend(plot_fx, data.force_x, plot_max_points)
                    /\ plot_fz' = DequeAppend(plot_fz, data.force_z, plot_max_points)
                    /\ plot_timestamp' =
                         DequeAppend(plot_timestamp, Val(data.timestamp), plot_max_points)
                    /\ current_data' = [time |-> plot_time', force_x |-> plot_fx',
                                        force_z |-> plot_fz',
                                        timestamp |-> plot_timestamp']
               ELSE UNCHANGED <<plot_time, plot_fx, plot_fz, plot_timestamp,
                                current_data>>
          /\ run_ingested' = Append(run_ingested, [data |-> data, failed |-> fail])
          /\ UNCHANGED <<plot_max_points, is_experiment_running,
                         experiment_start_time, live_csv_path, csv_file,
                         csv_writer, now, open_count, run_log>>

\* DataManager.get_current_data
GetCurrentData == current_data

\* ---- numbers: a float the sink computes is kept exact, as a fraction with a
\* positive denominator.
Ratio(n, d) == [num |-> n, den |-> d]
RatLeq(a, b) == a.num * b.den <= b.num * a.den
RatEq(a, b) == a.num * b.den = b.num * a.den
RatMin(a, b) == IF RatLeq(a, b) THEN a ELSE b
Zero == Ratio(0, 1)
Hundred == Ratio(100, 1)

\* Series.max(), Series.min() and Series.sum() of a column without NaN.
RECURSIVE SeqMax(_)
SeqMax(col) ==
  IF Len(col) = 1 THEN col[1]
  ELSE LET m == SeqMax(Tail(col)) IN IF col[1] >= m THEN col[1] ELSE m

RECURSIVE SeqMin(_)
SeqMin(col) ==
  IF Len(col) = 1 THEN col[1]
  ELSE LET m == SeqMin(Tail(col)) IN IF col[1] <= m THEN col[1] ELSE m

RECURSIVE SeqSum(_)
SeqSum(col) == IF col = <<>> THEN 0 ELSE col[1] + SeqSum(Tail(col))

\* DataFrame.empty
FrameEmpty(frame) == Len(frame.time) = 0

\* Series.isna().all() and Series.dropna() of a force column, whose missing
\* values are NaN.
AllNaN(col) == \A i \in 1..Len(col) : ~IsSet(col[i])
DropNa(col) ==
  LET kept == SelectSeq(col, IsSet) IN [i \in 1..Len(kept) |-> Val(kept[i])]

\* A progress taken from the newest entry of the snapshot instead of its
\* largest time.
GetExperimentProgressLatest(total_duration) ==
  IF ~is_experiment_running \/ FrameEmpty(current_data) THEN Zero
  ELSE LET current_time == current_data.time[Len(current_data.time)]
       IN  IF total_duration > 0
             THEN RatMin(Ratio(current_time * 100, total_duration), Hundred)
             ELSE Zero

\* DataManager.get_experiment_progress
GetExperimentProgress(total_duration) ==
  IF ~is_experiment_running \/ FrameEmpty(current_data) THEN Zero
  ELSE LET current_time == SeqMax(current_data.time)
       IN  IF total_duration > 0
             THEN RatMin(Ratio(current_time * 100, total_duration), Hundred)
             ELSE Zero

\* The statistics of one force column: mean, std, min and max of its values
\* that are not NaN.  The mean is a fraction; std is the square root of the
\* sample variance kept here (NaN, None, for a single value).
ForceStatistics(col, mean, std, min, max) ==
  LET force_data == DropNa(col)
      n == Len(force_data)
      squares == [i \in 1..n |-> force_data[i] * force_data[i]]
  IN  (mean :> Ratio(SeqSum(force_data), n))
        @@ (std :> IF n > 1
                     THEN Some(Ratio(n * SeqSum(squares)
                                       - SeqSum(force_data) * SeqSum(force_data),
                                     n * (n - 1)))
                     ELSE None)
        @@ (min :> SeqMin(force_data))
        @@ (max :> SeqMax(force_data))

\* The empty dict.
NoStatistics == [key \in {} |-> 0]

\* DataManager.get_statistics: the dict it returns, as a function of its keys.
GetStatistics ==
  IF FrameEmpty(current_data) THEN NoStatistics
  ELSE (("duration" :> SeqMax(current_data.time))
          @@ ("data_points" :> Len(current_data.time)))
       @@ (IF AllNaN(current_data.force_x) THEN NoStatistics
           ELSE ForceStatistics(current_data.force_x, "force_x_mean",
                                "force_x_std", "force_x_min", "force_x_max"))
       @@ (IF AllNaN(current_data.force_z) THEN NoStatistics
           ELSE ForceStatistics(current_data.force_z, "force_z_mean",
                                "force_z_std", "force_z_min", "force_z_max"))

\* ------------------------------------------------------- TribologyExperimentGUI
\* TribologyExperimentGUI.handle_serial_data, the reader's data callback.
HandleSerialData(data, fail) == AddDataPoint(MappedRecord(data, sensor_source), fail)

\* --------------------------------------------------------- SerialCommunication
\* The complete lines one read of the link can deliver: the next k lines of
\* the device's stream, numbered from n + 1.
RECURSIVE Chunks(_, _)
Chunks(n, k) ==
  IF k = 0 THEN {<<>>}
  ELSE {<<line>> \o rest : line \in DeviceLines(n + 1), rest \in Chunks(n + 1, k - 1)}

\* SerialCommunication._read_data: one pass of the outer loop that finds bytes
\* waiting (in_waiting > 0) reads all of them and appends them to the buffer;
\* the lines they complete are then processed one by one.
ReadChunk ==
  /\ buffer = <<>>
  /\ \E k \in 1..MaxChunk :
       /\ lines_sent + k <= MaxLines
       /\ \E chunk \in Chunks(lines_sent, k) :
            /\ buffer' = buffer \o chunk
            /\ stream' = stream \o chunk
       /\ lines_sent' = lines_sent + k
  /\ UNCHANGED <<sinkVars, data_queue, sensor_source, cmdVars, textVars, now, files, open_count,
                 runs_started, io_failures, plot_max_points_arg, run_ingested,
                 run_log, threadVars, guiVars>>

\* A reader that takes the newest complete line first.
NextLineNewest(buf) == buf[Len(buf)]

\* The line the inner loop of _read_data takes next, and what it leaves.
NextLine(buf) == Head(buf)
RestOfBuffer(buf) == Tail(buf)

\* SerialCommunication._process_line on the next complete line of the buffer:
\* parse, enqueue, then the callback, synchronously.
ProcessLine ==
  /\ buffer # <<>>
  /\ buffer' = RestOfBuffer(buffer)
  /\ LET parsed == ParseDataLine(NextLine(buffer))
     IN  IF IsSet(parsed)
           THEN /\ data_queue' = Append(data_queue, Val(parsed))
                /\ \E fail \in BOOLEAN : HandleSerialData(Val(parsed), fail)
           ELSE UNCHANGED <<sinkVars, data_queue, now, files, open_count,
                            io_failures, run_ingested, run_log>>
  /\ UNCHANGED <<sensor_source, cmdVars, textVars, lines_sent, runs_started, plot_max_points_arg,
                 stream, threadVars, guiVars>>

\* ------------------------------------------------------------------- clock
Tick ==
  /\ now < MaxClock
  /\ now' = now + 1
  /\ UNCHANGED <<sinkVars, readerVars, sensor_source, cmdVars, textVars, files, open_count,
                 lines_sent, runs_started, io_failures, histVars, threadVars,
                 guiVars>>

\* -------------------------------------------------------------------- Next
StartRun == \E open_ok \in BOOLEAN : StartExperiment(open_ok)

Next ==
  \/ StartRun
  \/ StopExperiment
  \/ ClearCurrentData
  \/ ReadChunk
  \/ ProcessLine
  \/ Tick

Spec == Init /\ [][Next]_vars

\* ------------------------------------------------- progress specification
\* The sink under a device that sends measurement lines with any time in
\* MinDeviceTime..MaxDeviceTime, marked or not, and marked status lines; the
\* wall clock stands still and every open succeeds.
TimedLines(n) ==
  {MeasurementFixed(n, m, t) : m \in BOOLEAN, t \in MinDeviceTime..MaxDeviceTime}
    \cup {StatusLine(n, TRUE)}

\* One pass of the outer loop of _read_data that reads one complete line.
ReadTimedLine ==
  /\ buffer = <<>>
  /\ lines_sent < MaxProgressLines
  /\ \E line \in TimedLines(lines_sent + 1) :
       /\ buffer' = Append(buffer, line)
       /\ stream' = Append(stream, line)
  /\ lines_sent' = lines_sent + 1
  /\ UNCHANGED <<sinkVars, data_queue, sensor_source, cmdVars, textVars, now, files, open_count,
                 runs_started, io_failures, plot_max_points_arg, run_ingested,
                 run_log, threadVars, guiVars>>

ProgressNext ==
  \/ StartExperiment(TRUE)
  \/ StopExperiment
  \/ ClearCurrentData
  \/ ReadTimedLine
  \/ ProcessLine

ProgressSpec == Init /\ [][ProgressNext]_vars

\* --------------------------------------------- interleaving specification
\* The reading task runs the data callback (handle_serial_data, then
\* add_data_point) on its own thread while the presentation thread runs
\* start_experiment, stop_experiment, clear_current_data and get_current_data.
\* Neither side takes a lock, so the threads interleave between statements:
\* here every statement that touches a shared field of the sink is one step.
\* The wall clock stands still, every open and every write succeeds.
RaceLines(n) == {MeasurementFixed(n, TRUE, MaxTime), StatusLine(n, FALSE)}

\* One pass of the outer loop of _read_data that reads one complete line.
ReadRaceLine ==
  /\ ingest_pc = "idle"
  /\ buffer = <<>>
  /\ lines_sent < MaxRaceLines
  /\ \E line \in RaceLines(lines_sent + 1) :
       /\ buffer' = Append(buffer, line)
       /\ stream' = Append(stream, line)
  /\ lines_sent' = lines_sent + 1
  /\ UNCHANGED <<sinkVars, data_queue, sensor_source, cmdVars, textVars, now, files, open_count,
                 runs_started, io_failures, plot_max_points_arg, run_ingested,
                 run_log, threadVars, guiVars>>

\* _process_line up to the call of add_data_point: parse, enqueue, remap.
DispatchLine ==
  /\ ingest_pc = "idle"
  /\ buffer # <<>>
  /\ buffer' = RestOfBuffer(buffer)
  /\ LET parsed == ParseDataLine(NextLine(buffer))
     IN  IF IsSet(parsed)
           THEN /\ data_queue' = Append(data_queue, Val(parsed))
                /\ ingest_data' = Some(MappedRecord(Val(parsed), sensor_source))
                /\ ingest_pc' = "check"
           ELSE UNCHANGED <<data_queue, ingest_data, ingest_pc>>
  /\ UNCHANGED <<sinkVars, sensor_source, cmdVars, textVars, envVars, histVars, linkVars,
                 ingest_cols, uiVars, guiVars>>

\* add_data_point: if not self.is_experiment_running: return; then the
\* timestamp.
IngestCheck ==
  /\ ingest_pc = "check"
  /\ IF AcceptsData
       THEN /\ ingest_data' = Some(Stamped(Val(ingest_data)))
            /\ ingest_pc' = "write"
            /\ run_ingested' = Append(run_ingested,
                                      [data |-> Stamped(Val(ingest_data)),
                                       failed |-> FALSE])
       ELSE /\ ingest_data' = None
            /\ ingest_pc' = "idle"
            /\ UNCHANGED run_ingested
  /\ UNCHANGED <<sinkVars, readerVars, sensor_source, cmdVars, textVars, envVars,
                 plot_max_points_arg, stream, run_log, linkVars, ingest_cols,
                 uiVars, guiVars>>

\* add_data_point: if self._csv_writer:
IngestWrite ==
  /\ ingest_pc = "write"
  /\ ingest_pc' = IF IsSet(csv_writer) THEN "writerow" ELSE "gate"
  /\ UNCHANGED <<sinkVars, readerVars, sensor_source, cmdVars, textVars, envVars, histVars,
                 linkVars, ingest_data, ingest_cols, uiVars, guiVars>>

\* add_data_point: writerow, the counter and the flush.  When the
\* presentation thread closed the log since the check, self._csv_writer is
\* None, the call raises and the exception is swallowed.
IngestWriteRow ==
  /\ ingest_pc = "writerow"
  /\ ingest_pc' = "gate"
  /\ IF IsSet(csv_writer)
       THEN /\ rows_written' = CountAfterWrite(rows_written, FALSE)
            /\ files' = [files EXCEPT ![Val(csv_file)] =
                            LogAfterWrite(@, Val(ingest_data), rows_written')]
       ELSE UNCHANGED <<rows_written, files>>
  /\ UNCHANGED <<plot_max_points, is_experiment_running, experiment_start_time,
                 plot_time, plot_fx, plot_fz, plot_timestamp, current_data,
                 live_csv_path, csv_file, csv_writer, readerVars,
                 sensor_source, cmdVars, textVars, now, open_count, lines_sent, runs_started,
                 io_failures, histVars, linkVars, ingest_data, ingest_cols,
                 uiVars, guiVars>>

\* add_data_point: if data.get("is_experiment", False):
IngestGate ==
  /\ ingest_pc = "gate"
  /\ IF PushesToPlot(Val(ingest_data))
       THEN /\ ingest_pc' = "append_time"
            /\ UNCHANGED ingest_data
       ELSE /\ ingest_pc' = "idle"
            /\ ingest_data' = None
  /\ UNCHANGED <<sinkVars, readerVars, sensor_source, cmdVars, textVars, envVars, histVars,
                 linkVars, ingest_cols, uiVars, guiVars>>

\* The four appends of add_data_point, one statement each.
IngestAppendTime ==
  /\ ingest_pc = "append_time"
  /\ ingest_pc' = "append_fx"
  /\ plot_time' = DequeAppend(plot_time, Val(Get(Val(ingest_data).time, Some(0))),
                              plot_max_points)
  /\ UNCHANGED <<plot_fx, plot_fz, plot_timestamp>>

IngestAppendFx ==
  /\ ingest_pc = "append_fx"
  /\ ingest_pc' = "append_fz"
  /\ plot_fx' = DequeAppend(plot_fx, Val(ingest_data).force_x, plot_max_points)
  /\ UNCHANGED <<plot_time, plot_fz, plot_timestamp>>

IngestAppendFz ==
  /\ ingest_pc = "append_fz"
  /\ ingest_pc' = "append_timestamp"
  /\ plot_fz' = DequeAppend(plot_fz, Val(ingest_data).force_z, plot_max_points)
  /\ UNCHANGED <<plot_time, plot_fx, plot_timestamp>>

IngestAppendTimestamp ==
  /\ ingest_pc = "append_timestamp"
  /\ ingest_pc' = "list"
  /\ plot_timestamp' = DequeAppend(plot_timestamp,
                                   Val(Val(ingest_data).timestamp),
                                   plot_max_points)
  /\ UNCHANGED <<plot_time, plot_fx, plot_fz>>

IngestAppend ==
  /\ \/ IngestAppendTime
     \/ IngestAppendFx
     \/ IngestAppendFz
     \/ IngestAppendTimestamp
  /\ UNCHANGED <<plot_max_points, is_experiment_running, experiment_start_time,
                 current_data, live_csv_path, csv_file, csv_writer,
                 rows_written, readerVars, sensor_source, cmdVars, textVars, envVars, histVars,
                 linkVars, ingest_data, ingest_cols, uiVars, guiVars>>

\* The four list(deque) copies the DataFrame is built from, in the order of
\* the dict literal: time, force_x, force_z, timestamp.
LiveColumns == <<plot_time, plot_fx, plot_fz, plot_timestamp>>

IngestList ==
  /\ ingest_pc = "list"
  /\ ingest_cols' = Append(ingest_cols, LiveColumns[Len(ingest_cols) + 1])
  /\ ingest_pc' = IF Len(ingest_cols) = 3 THEN "frame" ELSE "list"
  /\ UNCHANGED <<sinkVars, readerVars, sensor_source, cmdVars, textVars, envVars, histVars,
                 linkVars, ingest_data, uiVars, guiVars>>

\* A DataFrame constructor that takes columns of any lengths.
FrameBuildsAlways(cols) == TRUE

\* pd.DataFrame(dict of lists) raises ValueError unless the lists have one
\* length.
FrameBuilds(cols) ==
  /\ Len(cols[2]) = Len(cols[1])
  /\ Len(cols[3]) = Len(cols[1])
  /\ Len(cols[4]) = Len(cols[1])

\* add_data_point: self.current_data = pd.DataFrame({...}).  When the
\* constructor raises, the exception leaves add_data_point and the callback,
\* _read_data catches it and breaks: the reading task terminates.
IngestFrame ==
  /\ ingest_pc = "frame"
  /\ IF FrameBuilds(ingest_cols)
       THEN /\ current_data' = [time |-> ingest_cols[1], force_x |-> ingest_cols[2],
                                force_z |-> ingest_cols[3],
                                timestamp |-> ingest_cols[4]]
            /\ ingest_pc' = "idle"
       ELSE /\ ingest_pc' = "dead"
            /\ UNCHANGED current_data
  /\ ingest_data' = None
  /\ ingest_cols' = <<>>
  /\ UNCHANGED <<plot_max_points, is_experiment_running, experiment_start_time,
                 plot_time, plot_fx, plot_fz, plot_timestamp, live_csv_path,
                 csv_file, csv_writer, rows_written, readerVars, sensor_source, cmdVars, textVars,
                 envVars, histVars, linkVars, uiVars, guiVars>>

\* A step of the reading task inside the callback.
IngestAction ==
  \/ IngestCheck
  \/ IngestWrite
  \/ IngestWriteRow
  \/ IngestGate
  \/ IngestAppend
  \/ IngestList
  \/ IngestFrame

\* ---- the presentation thread
\* deque.clear() of one live-buffer column, moving the handler from one
\* statement to the next.
UiClearColumn(pc, next, col) ==
  /\ ui_pc = pc
  /\ ui_pc' = next
  /\ plot_time' = IF col = 1 THEN <<>> ELSE plot_time
  /\ plot_fx' = IF col = 2 THEN <<>> ELSE plot_fx
  /\ plot_fz' = IF col = 3 THEN <<>> ELSE plot_fz
  /\ plot_timestamp' = IF col = 4 THEN <<>> ELSE plot_timestamp
  /\ UNCHANGED <<plot_max_points, is_experiment_running, experiment_start_time,
                 current_data, live_csv_path, csv_file, csv_writer,
                 rows_written, envVars, histVars>>

\* start_experiment, statement by statement: the start time and the run
\* flag; the four clears; the empty frame; the path and _open_live_csv.
UiStartFlag ==
  /\ ui_pc = "idle"
  /\ runs_started < MaxRuns
  /\ runs_started' = runs_started + 1
  /\ experiment_start_time' = Some(now)
  /\ is_experiment_running' = TRUE
  /\ run_ingested' = <<>>
  /\ ui_pc' = "start_clear_time"
  /\ UNCHANGED <<plot_max_points, plot_time, plot_fx, plot_fz, plot_timestamp,
                 current_data, live_csv_path, csv_file, csv_writer,
                 rows_written, now, files, open_count, lines_sent, io_failures,
                 plot_max_points_arg, stream, run_log>>

UiStartClear ==
  \/ UiClearColumn("start_clear_time", "start_clear_fx", 1)
  \/ UiClearColumn("start_clear_fx", "start_clear_fz", 2)
  \/ UiClearColumn("start_clear_fz", "start_clear_timestamp", 3)
  \/ UiClearColumn("start_clear_timestamp", "start_frame", 4)

UiStartFrame ==
  /\ ui_pc = "start_frame"
  /\ ui_pc' = "start_open"
  /\ current_data' = EmptyFrame
  /\ UNCHANGED <<plot_max_points, is_experiment_running, experiment_start_time,
                 plot_time, plot_fx, plot_fz, plot_timestamp, live_csv_path,
                 csv_file, csv_writer, rows_written, envVars, histVars>>

UiStartOpen ==
  /\ ui_pc = "start_open"
  /\ ui_pc' = "idle"
  /\ live_csv_path' = Some(LivePath(now))
  /\ files' = [FilesAfterClose EXCEPT ![LivePath(now)] = NewLog]
  /\ csv_file' = Some(LivePath(now))
  /\ csv_writer' = Some(LivePath(now))
  /\ rows_written' = 0
  /\ open_count' = OpenCountAfterClose + 1
  /\ run_log' = Some(LivePath(now))
  /\ UNCHANGED <<plot_max_points, is_experiment_running, experiment_start_time,
                 plot_time, plot_fx, plot_fz, plot_timestamp, current_data,
                 now, lines_sent, runs_started, io_failures,
                 plot_max_points_arg, stream, run_ingested>>

\* stop_experiment: the run flag, then _close_live_csv.
UiStopFlag ==
  /\ ui_pc = "idle"
  /\ ui_pc' = "stop_close"
  /\ is_experiment_running' = FALSE
  /\ UNCHANGED <<plot_max_points, experiment_start_time, plot_time, plot_fx,
                 plot_fz, plot_timestamp, current_data, live_csv_path,
                 csv_file, csv_writer, rows_written, envVars, histVars>>

UiStopClose ==
  /\ ui_pc = "stop_close"
  /\ ui_pc' = "idle"
  /\ files' = FilesAfterClose
  /\ open_count' = OpenCountAfterClose
  /\ csv_file' = None
  /\ csv_writer' = None
  /\ UNCHANGED <<plot_max_points, is_experiment_running, experiment_start_time,
                 plot_time, plot_fx, plot_fz, plot_timestamp, current_data,
                 live_csv_path, rows_written, now, lines_sent, runs_started,
                 io_failures, histVars>>

\* clear_current_data: the empty frame; the run flag; the four clears;
\* _close_live_csv with the path and the counter.
UiClearFrame ==
  /\ ui_pc = "idle"
  /\ ui_pc' = "clear_flag"
  /\ current_data' = EmptyFrame
  /\ UNCHANGED <<plot_max_points, is_experiment_running, experiment_start_time,
                 plot_time, plot_fx, plot_fz, plot_timestamp, live_csv_path,
                 csv_file, csv_writer, rows_written, envVars, histVars>>

UiClearFlag ==
  /\ ui_pc = "clear_flag"
  /\ ui_pc' = "clear_time"
  /\ is_experiment_running' = FALSE
  /\ UNCHANGED <<plot_max_points, experiment_start_time, plot_time, plot_fx,
                 plot_fz, plot_timestamp, current_data, live_csv_path,
                 csv_file, csv_writer, rows_written, envVars, histVars>>

UiClearClear ==
  \/ UiClearColumn("clear_time", "clear_fx", 1)
  \/ UiClearColumn("clear_fx", "clear_fz", 2)
  \/ UiClearColumn("clear_fz", "clear_timestamp", 3)
  \/ UiClearColumn("clear_timestamp", "clear_close", 4)

UiClearClose ==
  /\ ui_pc = "clear_close"
  /\ ui_pc' = "idle"
  /\ files' = FilesAfterClose
  /\ open_count' = OpenCountAfterClose
  /\ csv_file' = None
  /\ csv_writer' = None
  /\ live_csv_path' = None
  /\ rows_written' = 0
  /\ run_ingested' = <<>>
  /\ run_log' = None
  /\ UNCHANGED <<plot_max_points, is_experiment_running, experiment_start_time,
                 plot_time, plot_fx, plot_fz, plot_timestamp, current_data,
                 now, lines_sent, runs_started, io_failures,
                 plot_max_points_arg, stream>>

\* A step of the presentation thread inside start_experiment,
\* stop_experiment or clear_current_data.
UiHandlerAction ==
  /\ \/ UiStartFlag
     \/ UiStartClear
     \/ UiStartFrame
     \/ UiStartOpen
     \/ UiStopFlag
     \/ UiStopClose
     \/ UiClearFrame
     \/ UiClearFlag
     \/ UiClearClear
     \/ UiClearClose
  /\ UNCHANGED <<readerVars, sensor_source, cmdVars, textVars, linkVars, ingestVars, ui_snapshot,
                 guiVars>>

\* update_plots: df = self.data_manager.get_current_data(), a copy of the
\* frame current_data refers to at that moment.  The copy is kept with a
\* note of whether the reading task was inside the callback when it was taken.
UiGetCurrentData ==
  /\ ui_pc = "idle"
  /\ ui_snapshot' = Some([frame |-> GetCurrentData, during_ingest |-> ingest_pc # "idle"])
  /\ UNCHANGED <<sinkVars, readerVars, sensor_source, cmdVars, textVars, envVars, histVars,
                 linkVars, ingestVars, ui_pc, guiVars>>

RaceNext ==
  \/ ReadRaceLine
  \/ DispatchLine
  \/ IngestAction
  \/ UiHandlerAction
  \/ UiGetCurrentData

RaceSpec == Init /\ [][RaceNext]_vars

\* ----------------------------------------------------- reader specification
\* The link and the reading tasks of SerialCommunication.  serial_port is the
\* Serial object the instance refers to and open_ports tells, for every Serial
\* object created, whether it is open.  threads holds every task spawned:
\* where it is (at the head of the while loop, inside its body, or dead),
\* whether it ended on an exception, and how many Readings it dispatched.
\* The caller's thread is inside stop_reading or disconnect while ui_pc says
\* so.  The sink stays Idle.
NewThread == [pc |-> "head", error |-> FALSE, dispatched |-> 0]

Alive(i) == threads[i].pc # "dead"
AliveThreads == {i \in 1..Len(threads) : Alive(i)}

\* start_reading: the flag and the spawn, or nothing.
ReadingStarted(connected) ==
  IF connected /\ ~is_reading
    THEN /\ Len(threads) < MaxThreads
         /\ is_reading' = TRUE
         /\ threads' = Append(threads, NewThread)
         /\ read_thread' = Some(Len(threads) + 1)
    ELSE UNCHANGED <<is_reading, threads, read_thread>>

\* A connect that sets the flag before the open and leaves it set.
ConnectFailedFlagSet ==
  /\ is_connected' = TRUE
  /\ UNCHANGED <<serial_port, open_ports, is_reading, read_thread, threads>>

\* connect when serial.Serial(...) raises SerialException: nothing was
\* assigned, the exception is caught and printed.
ConnectFailed == UNCHANGED linkVars

\* SerialCommunication.connect.  ok is the environment's answer to
\* serial.Serial(...) (the endpoint is invalid or busy when it is FALSE);
\* connect_result is what the call returns.
Connect ==
  /\ ui_pc = "idle"
  /\ \E ok \in BOOLEAN :
       /\ connect_result' = Some(ok)
       /\ IF ok
            THEN /\ Len(open_ports) < MaxConnects
                 /\ open_ports' = Append(open_ports, TRUE)
                 /\ port_out' = Append(port_out, <<>>)
                 /\ serial_port' = Some(Len(open_ports) + 1)
                 /\ is_connected' = TRUE
                 /\ ReadingStarted(TRUE)
            ELSE ConnectFailed /\ UNCHANGED port_out
  /\ UNCHANGED <<sinkVars, readerVars, sensor_source, send_result, textVars,
                 envVars, histVars, ingestVars, uiVars, guiVars>>

\* SerialCommunication.start_reading, called by the owner.
StartReading ==
  /\ ui_pc = "idle"
  /\ ReadingStarted(is_connected)
  /\ UNCHANGED <<serial_port, open_ports, is_connected, sinkVars, readerVars,
                 sensor_source, cmdVars, textVars, envVars, histVars, ingestVars, uiVars,
                 guiVars>>

\* stop_reading up to the join: the flag is cleared, and the caller waits when
\* a task was ever started.
StopFlag(join_pc, after_pc) ==
  /\ ui_pc = "idle"
  /\ is_reading' = FALSE
  /\ ui_pc' = IF IsSet(read_thread) THEN join_pc ELSE after_pc
  /\ UNCHANGED <<serial_port, open_ports, is_connected, read_thread, threads,
                 sinkVars, readerVars, sensor_source, cmdVars, textVars, envVars, histVars,
                 ingestVars, ui_snapshot, guiVars>>

\* SerialCommunication.stop_reading, called by the owner.
StopReading == StopFlag("stop_join", "idle")

\* SerialCommunication.disconnect up to the join of stop_reading.
DisconnectStop == StopFlag("disconnect_join", "disconnect_close")

\* read_thread.join(timeout=2.0) returns when the task has exited, or when
\* the two seconds have passed: a task inside the loop body (a read, a
\* callback that blocks) can outlast them, one sleeping the 10 ms at the loop
\* head cannot.
JoinDone(thread) == thread.pc = "dead" \/ thread.pc = "body"

JoinReturn ==
  /\ ui_pc \in {"stop_join", "disconnect_join"}
  /\ JoinDone(threads[Val(read_thread)])
  /\ ui_pc' = IF ui_pc = "stop_join" THEN "idle" ELSE "disconnect_close"
  /\ UNCHANGED <<linkVars, sinkVars, readerVars, sensor_source, cmdVars, textVars, envVars,
                 histVars, ingestVars, ui_snapshot, guiVars>>

\* A disconnect that closes the port and leaves the flag as it was.
DisconnectCloseKeepsFlag ==
  /\ ui_pc = "disconnect_close"
  /\ ui_pc' = "idle"
  /\ open_ports' = IF IsSet(serial_port)
                     THEN [open_ports EXCEPT ![Val(serial_port)] = FALSE]
                     ELSE open_ports
  /\ UNCHANGED <<serial_port, is_connected, is_reading, read_thread, threads,
                 sinkVars, readerVars, sensor_source, cmdVars, textVars,
                 envVars, histVars, ingestVars, ui_snapshot, guiVars>>

\* SerialCommunication.disconnect after stop_reading: close the port if it is
\* open, clear the connection flag.
DisconnectClose ==
  /\ ui_pc = "disconnect_close"
  /\ ui_pc' = "idle"
  /\ open_ports' = IF IsSet(serial_port)
                     THEN [open_ports EXCEPT ![Val(serial_port)] = FALSE]
                     ELSE open_ports
  /\ is_connected' = FALSE
  /\ UNCHANGED <<serial_port, is_reading, read_thread, threads, sinkVars,
                 readerVars, sensor_source, cmdVars, textVars, envVars, histVars, ingestVars,
                 ui_snapshot, guiVars>>

\* while self.is_reading and self.is_connected:
LoopContinues == is_reading /\ is_connected

\* _read_data at the head of the loop: the task goes on or exits.
ThreadHead(i) ==
  /\ i <= Len(threads)
  /\ threads[i].pc = "head"
  /\ threads' = [threads EXCEPT ![i].pc = IF LoopContinues THEN "body" ELSE "dead"]
  /\ UNCHANGED <<serial_port, open_ports, is_connected, is_reading, read_thread,
                 sinkVars, readerVars, sensor_source, cmdVars, textVars, envVars, histVars,
                 ingestVars, uiVars, guiVars>>

\* The task ends on an exception: print and break.  The flags are left as
\* they are.
ThreadRaises(i) ==
  /\ threads' = [threads EXCEPT ![i].pc = "dead", ![i].error = TRUE]
  /\ UNCHANGED <<sinkVars, readerVars, now, files, open_count, lines_sent,
                 run_ingested, run_log, stream>>

\* _read_data, one pass of the loop body: the poll of in_waiting, the read and
\* the dispatch of a complete line, the sleep.  in_waiting raises on a closed
\* port; on an open one the environment answers with no bytes, with a line,
\* or with an error (the device was unplugged).
ThreadBody(i) ==
  /\ i <= Len(threads)
  /\ threads[i].pc = "body"
  /\ IF ~IsSet(serial_port)
       THEN /\ threads' = [threads EXCEPT ![i].pc = "head"]
            /\ UNCHANGED <<sinkVars, readerVars, envVars, run_ingested, run_log,
                           stream>>
       ELSE IF ~open_ports[Val(serial_port)]
         THEN ThreadRaises(i) /\ UNCHANGED io_failures
         ELSE \/ /\ threads' = [threads EXCEPT ![i].pc = "head"]
                 /\ UNCHANGED <<sinkVars, readerVars, envVars, run_ingested,
                                run_log, stream>>
              \/ /\ lines_sent < MaxReaderLines
                 /\ LET line == MeasurementFixed(lines_sent + 1, TRUE, MaxTime)
                        data == Val(ParseDataLine(line))
                    IN  /\ stream' = Append(stream, line)
                        /\ data_queue' = Append(data_queue, data)
                        /\ HandleSerialData(data, FALSE)
                 /\ lines_sent' = lines_sent + 1
                 /\ threads' = [threads EXCEPT ![i].pc = "head",
                                               ![i].dispatched = @ + 1]
                 /\ UNCHANGED <<buffer, runs_started>>
              \/ /\ io_failures < MaxIoFailures
                 /\ io_failures' = io_failures + 1
                 /\ ThreadRaises(i)
  /\ UNCHANGED <<serial_port, open_ports, is_connected, is_reading, read_thread,
                 sensor_source, cmdVars, textVars, runs_started, plot_max_points_arg, ingestVars,
                 uiVars, guiVars>>

ThreadStep(i) == ThreadHead(i) \/ ThreadBody(i)

ReaderNext ==
  \/ Connect
  \/ StartReading
  \/ StopReading
  \/ DisconnectStop
  \/ JoinReturn
  \/ DisconnectClose
  \/ \E i \in 1..MaxThreads : ThreadStep(i)

ReaderSpec == Init /\ [][ReaderNext]_vars

\* Every task that can take a step eventually does, and a caller waiting in
\* join eventually returns (the join is bounded).
ReaderFairSpec ==
  /\ ReaderSpec
  /\ \A i \in 1..MaxThreads : WF_vars(ThreadStep(i))
  /\ WF_vars(JoinReturn)
  /\ WF_vars(DisconnectClose)

\* ---------------------------------------------------- command specification
\* Text is a sequence of characters.  The command texts the owner sends: the
\* two fixed literals, and a free text.
StartLiteral == <<"3">>
StopLiteral == <<"s", "t", "o", "p">>
CommandTexts == {<<"5", " ", "1">>}

\* f"{command}\n".encode('utf-8'): the command's characters and one line
\* feed (commands are ASCII: one byte per character).
CommandBytes(command) == command \o <<"\n">>

\* The writes made to all links so far.
RECURSIVE WritesMade(_)
WritesMade(p) == IF p = 0 THEN 0 ELSE Len(port_out[p]) + WritesMade(p - 1)

\* A send that needs no connection.
CanSendAlways == TRUE

\* send_command's guard: if not self.is_connected or not self.serial_port:
\* return False
CanSend == is_connected /\ IsSet(serial_port)

\* A write that leaves the line terminator out.
SentBytesNoTerminator(command) == command

\* What serial_port.write is given.
SentBytes(command) == CommandBytes(command)

\* SerialCommunication.send_command(command), called as call.  The
\* environment lets write and flush pass, or write raise (nothing was
\* written), or flush raise (the bytes were handed over); send_result is the
\* call and what it returned; max_writes caps the writes of a behaviour.
SendCommandWithin(max_writes, call, command) ==
  /\ ui_pc = "idle"
  /\ IF ~CanSend
       THEN /\ send_result' = Some([call |-> call, command |-> command,
                                    returned |-> FALSE])
            /\ UNCHANGED port_out
       ELSE \E write_ok, flush_ok \in BOOLEAN :
              /\ write_ok => WritesMade(Len(port_out)) < max_writes
              /\ port_out' =
                   IF write_ok /\ IsSet(serial_port)
                     THEN [port_out EXCEPT ![Val(serial_port)] =
                             Append(@, SentBytes(command))]
                     ELSE port_out
              /\ send_result' = Some([call |-> call, command |-> command,
                                      returned |-> write_ok /\ flush_ok])
  /\ UNCHANGED <<sinkVars, readerVars, sensor_source, connect_result, textVars,
                 envVars, histVars, linkVars, ingestVars, uiVars>>

\* send_command called while no TribologyExperimentGUI handler is under way.
SendCommand(call, command) ==
  SendCommandWithin(MaxCommands, call, command) /\ UNCHANGED guiVars

\* SerialCommunication.start_experiment / stop_experiment.
SerialStartExperiment == SendCommand("start_experiment", StartLiteral)
SerialStopExperiment == SendCommand("stop_experiment", StopLiteral)

\* _read_data, one pass of the loop body on a device that sends nothing:
\* in_waiting is 0 on an open port and raises on a closed one, then the
\* sleep.
ThreadPoll(i) ==
  /\ i <= Len(threads)
  /\ threads[i].pc = "body"
  /\ IF IsSet(serial_port) /\ ~open_ports[Val(serial_port)]
       THEN threads' = [threads EXCEPT ![i].pc = "dead", ![i].error = TRUE]
       ELSE threads' = [threads EXCEPT ![i].pc = "head"]
  /\ UNCHANGED <<serial_port, open_ports, is_connected, is_reading, read_thread,
                 sinkVars, readerVars, sensor_source, cmdVars, textVars,
                 envVars, histVars, ingestVars, uiVars, guiVars>>

\* send_config(params, sensor_source).  The parameters are the text of their
\* values; the command line is the CFG word, the parameters and the sensor
\* source, separated by blanks, sent as one command.
ConfigParams == {<<"1">>, <<"2", "0">>}
SourceText(source) == IF source = "free_sphere" THEN <<"f", "r", "e", "e">>
                      ELSE <<"f", "i", "x", "e", "d">>
ConfigLine(params, source) ==
  <<"C", "F", "G", " ">> \o params \o <<" ">> \o SourceText(source)
SendConfig ==
  \E params \in ConfigParams :
    SendCommand("send_config", ConfigLine(params, sensor_source))

\* send_command called by the owner with any text.
SendText == \E command \in CommandTexts : SendCommand("send_command", command)

CommandNext ==
  \/ Connect
  \/ DisconnectStop
  \/ JoinReturn
  \/ DisconnectClose
  \/ \E i \in 1..MaxThreads : ThreadHead(i)
  \/ \E i \in 1..MaxThreads : ThreadPoll(i)
  \/ SendText
  \/ SerialStartExperiment
  \/ SerialStopExperiment
  \/ SendConfig

CommandSpec == Init /\ [][CommandNext]_vars

\* ------------------------------------------------------------ text, lines
\* Text is a sequence of characters.  CR and LF are the characters "\r" and
\* "\n".
CR == <<"\r">>
LF == <<"\n">>
CRLF == <<"\r", "\n">>

\* The characters str.strip() removes that the streams here carry.
Whitespace == {" ", "\t", "\r", "\n"}

\* text[i:i+len(pat)] == pat
MatchAt(text, i, pat) ==
  /\ i + Len(pat) - 1 <= Len(text)
  /\ SubSeq(text, i, i + Len(pat) - 1) = pat

\* The places where pat occurs in text, and pat in text.
Occurrences(text, pat) == {i \in 1..Len(text) : MatchAt(text, i, pat)}
Contains(text, pat) == Occurrences(text, pat) # {}

\* The least element of a non-empty set of numbers.
Least(S) == CHOOSE i \in S : \A j \in S : i <= j

\* text.split(sep, 1): what precedes the first sep, and what follows it.
SplitOnce(text, sep) ==
  LET i == Least(Occurrences(text, sep))
  IN  [line |-> SubSeq(text, 1, i - 1),
       rest |-> SubSeq(text, i + Len(sep), Len(text))]

\* str.strip()
RECURSIVE LStrip(_)
LStrip(text) ==
  IF text # <<>> /\ Head(text) \in Whitespace THEN LStrip(Tail(text)) ELSE text
RECURSIVE RStrip(_)
RStrip(text) ==
  IF text # <<>> /\ text[Len(text)] \in Whitespace
    THEN RStrip(SubSeq(text, 1, Len(text) - 1))
    ELSE text
Strip(text) == RStrip(LStrip(text))

\* while '\n' in buffer or '\r' in buffer:
HasTerminator(buf) == Contains(buf, LF) \/ Contains(buf, CR)

\* One pass of the inner loop of _read_data: the buffer is split at the first
\* CRLF when it holds one anywhere, else at the first LF, else at the first
\* CR.
SplitBuffer(buf) ==
  IF Contains(buf, CRLF) THEN SplitOnce(buf, CRLF)
  ELSE IF Contains(buf, LF) THEN SplitOnce(buf, LF)
  ELSE SplitOnce(buf, CR)

\* ------------------------------------------------------ parser on the text
Digits == <<"0", "1", "2", "3", "4", "5", "6", "7", "8", "9">>
LowerLetters == <<"a", "b", "c", "d", "e", "f", "g", "h", "i", "j", "k", "l", "m", "n", "o", "p", "q", "r", "s", "t", "u", "v", "w", "x", "y", "z">>
UpperLetters == <<"A", "B", "C", "D", "E", "F", "G", "H", "I", "J", "K", "L", "M", "N", "O", "P", "Q", "R", "S", "T", "U", "V", "W", "X", "Y", "Z">>
Range(seq) == {seq[i] : i \in 1..Len(seq)}

\* The class [\d.-] and the word characters \w (for \b).
NumChars == Range(Digits) \cup {".", "-"}
WordChars == Range(Digits) \cup Range(LowerLetters) \cup Range(UpperLetters) \cup {"_"}

\* str.lower(), character by character.
LowerChar(c) ==
  IF c \in Range(UpperLetters)
    THEN LowerLetters[CHOOSE k \in 1..Len(UpperLetters) : UpperLetters[k] = c]
    ELSE c
Lower(text) == [i \in 1..Len(text) |-> LowerChar(text[i])]

\* The end of the longest run of [\d.-] that starts at j.
RECURSIVE NumRunEnd(_, _)
NumRunEnd(text, j) ==
  IF j < Len(text) /\ text[j + 1] \in NumChars THEN NumRunEnd(text, j + 1) ELSE j

\* re.search(tag + r'([\d.-]+)', text), with \b before the tag when boundary:
\* group(1) of the first match, or None.
Search(text, tag, boundary) ==
  LET starts == {i \in Occurrences(text, tag) :
                   /\ i + Len(tag) <= Len(text)
                   /\ text[i + Len(tag)] \in NumChars
                   /\ boundary => (i = 1 \/ text[i - 1] \notin WordChars)}
  IN  IF starts = {} THEN None
      ELSE LET j == Least(starts) + Len(tag)
           IN  Some(SubSeq(text, j, NumRunEnd(text, j)))

\* The number a run of digits denotes.
RECURSIVE DigitsValue(_)
DigitsValue(ds) ==
  IF ds = <<>> THEN 0
  ELSE 10 * DigitsValue(SubSeq(ds, 1, Len(ds) - 1))
         + (CHOOSE d \in 0..9 : Digits[d + 1] = ds[Len(ds)])

RECURSIVE PowerOfTen(_)
PowerOfTen(k) == IF k = 0 THEN 1 ELSE 10 * PowerOfTen(k - 1)

\* float(text) for a text over [\d.-]: an optional minus sign, then digits
\* with at most one point and at least one digit; anything else raises
\* ValueError (None here).  The value is kept as an exact ratio.
Float(text) ==
  LET negative == text # <<>> /\ Head(text) = "-"
      body == IF negative THEN Tail(text) ELSE text
      points == Occurrences(body, <<".">>)
      digits == SelectSeq(body, LAMBDA c : c \in Range(Digits))
      decimals == IF points = {} THEN 0 ELSE Len(body) - Least(points)
  IN  IF Contains(body, <<"-">>) \/ Cardinality(points) > 1 \/ digits = <<>>
        THEN None
        ELSE Some(Ratio((IF negative THEN -1 ELSE 1) * DigitsValue(digits),
                        PowerOfTen(decimals)))

\* The tags and the keywords of parse_data_line.
TimeTag == <<"T", "i", "m", "e", ":">>
FixedXTag == <<"F", "i", "x", "e", "d", "_", "X", ":">>
FixedZTag == <<"F", "i", "x", "e", "d", "_", "Z", ":">>
FxTag == <<"F", "x", ":">>
FzTag == <<"F", "z", ":">>
Keywords == {<<"e", "x", "p", "e", "r", "i", "m", "e", "n", "t">>, <<"s", "t", "a", "r", "t", "e", "d">>, <<"f", "i", "n", "i", "s", "h", "e", "d">>, <<"p", "u", "m", "p">>, <<"m", "o", "t", "o", "r">>}

\* A parser that takes every line without a force for a status message.
HasKeywordAlways(text) == TRUE

\* any(keyword in line.lower() for keyword in [...])
HasKeyword(text) == \E keyword \in Keywords : Contains(Lower(text), keyword)

\* The matched tags of a line, each the text of its value or None, in the
\* order parse_data_line converts them.
Matches(text) ==
  [time |-> Search(text, TimeTag, FALSE),
   fixed_x |-> Search(text, FixedXTag, FALSE),
   fx |-> Search(text, FxTag, TRUE),
   fixed_z |-> Search(text, FixedZTag, FALSE),
   fz |-> Search(text, FzTag, TRUE)]

\* A parser that remembers a Reading it returned and extracts no value
\* after it.
FieldValueOnce(match) ==
  IF IsSet(match) /\ data_queue = <<>> THEN Float(Val(match)) ELSE None

\* float(match.group(1)) for a matched tag, None for an unmatched one.
FieldValue(match) == IF IsSet(match) THEN Float(Val(match)) ELSE None

\* A parser that takes the controlled-naming value first.
CanonicalForceShortFirst(fixed, short) == IF IsSet(short) THEN short ELSE fixed

\* data["force_x"]: the fixed-naming value when it matched, else the
\* controlled-naming one, else the key is missing.
CanonicalForce(fixed, short) == IF IsSet(fixed) THEN fixed ELSE short

\* SerialCommunication.parse_data_line on the text of a line.  raised: a
\* float() of a matched value raised ValueError, which parse_data_line does
\* not catch; otherwise data is the Reading or None.
ParseDataText(line) ==
  LET is_experiment_data == line # <<>> /\ Head(line) = ">"
      text == IF is_experiment_data THEN Tail(line) ELSE line
      m == Matches(text)
      bad == \E key \in DOMAIN m : IsSet(m[key]) /\ ~IsSet(Float(Val(m[key])))
      force_x == CanonicalForce(FieldValue(m.fixed_x), FieldValue(m.fx))
      force_z == CanonicalForce(FieldValue(m.fixed_z), FieldValue(m.fz))
      data == [is_experiment |-> is_experiment_data, raw |-> text,
               time |-> FieldValue(m.time),
               fixed_x |-> FieldValue(m.fixed_x), fixed_z |-> FieldValue(m.fixed_z),
               fx |-> FieldValue(m.fx), fz |-> FieldValue(m.fz),
               force_x |-> force_x, force_z |-> force_z,
               message |-> None, timestamp |-> None]
  IN  IF bad THEN [raised |-> TRUE, data |-> None]
      ELSE IF IsSet(force_x) \/ IsSet(force_z)
        THEN [raised |-> FALSE, data |-> Some(data)]
      ELSE IF HasKeyword(text)
        THEN [raised |-> FALSE, data |-> Some([data EXCEPT !.message = Some(text)])]
      ELSE [raised |-> FALSE, data |-> None]

\* ------------------------------------------------------- text specifications
\* The reading task on the text of the stream: a connected link delivers
\* chunks of characters, _read_data appends them to its buffer, takes the
\* complete lines out one by one and hands each non-blank one, stripped, to
\* _process_line.  chunk is what in_waiting and read deliver in one pass;
\* line is the device line the chunk carries, when the device formats one.
ThreadReadText(i, chunk, line) ==
  /\ i <= Len(threads)
  /\ threads[i].pc = "body"
  /\ IsSet(serial_port)
  /\ open_ports[Val(serial_port)]
  /\ buffer' = buffer \o chunk
  /\ stream' = stream \o chunk
  /\ device_line' = line
  /\ threads' = [threads EXCEPT ![i].pc = "lines"]
  /\ UNCHANGED <<sinkVars, data_queue, sensor_source, cmdVars, emitted, envVars,
                 plot_max_points_arg, run_ingested, run_log, serial_port,
                 open_ports, is_connected, is_reading, read_thread, ingestVars,
                 uiVars, guiVars>>

\* _process_line: if data:
Surfaces(parsed) == IsSet(parsed.data)

\* One pass of the inner loop: the next line is split off the buffer and, if
\* it is not blank, stripped and processed: parsed, enqueued and passed to
\* the callback; a ValueError of the parser leaves through the except of
\* _read_data and ends the task.  With no terminator left the task sleeps.
ThreadTextLine(i) ==
  /\ i <= Len(threads)
  /\ threads[i].pc = "lines"
  /\ IF ~HasTerminator(buffer)
       THEN /\ threads' = [threads EXCEPT ![i].pc = "head"]
            /\ UNCHANGED <<sinkVars, readerVars, emitted, now, files, open_count,
                           io_failures, run_ingested, run_log>>
       ELSE LET split == SplitBuffer(buffer)
                line == Strip(split.line)
                parsed == ParseDataText(line)
            IN  /\ buffer' = split.rest
                /\ IF line = <<>>
                     THEN UNCHANGED <<sinkVars, data_queue, emitted, threads, now,
                                      files, open_count, io_failures,
                                      run_ingested, run_log>>
                     ELSE /\ emitted' = Append(emitted, line)
                          /\ IF parsed.raised
                               THEN /\ threads' = [threads EXCEPT ![i].pc = "dead",
                                                                  ![i].error = TRUE]
                                    /\ UNCHANGED <<sinkVars, data_queue, now, files,
                                                   open_count, io_failures,
                                                   run_ingested, run_log>>
                               ELSE IF Surfaces(parsed)
                                 THEN /\ data_queue' = Append(data_queue, Val(parsed.data))
                                      /\ HandleSerialData(Val(parsed.data), FALSE)
                                      /\ threads' = [threads EXCEPT ![i].dispatched = @ + 1]
                                 ELSE UNCHANGED <<sinkVars, data_queue, threads, now,
                                                  files, open_count, io_failures,
                                                  run_ingested, run_log>>
  /\ UNCHANGED <<sensor_source, cmdVars, device_line, lines_sent, runs_started,
                 plot_max_points_arg, stream, serial_port, open_ports,
                 is_connected, is_reading, read_thread, ingestVars, uiVars,
                 guiVars>>

\* --- the line assembler: any stream over text, blank, CR and LF, cut into
\* chunks at any place.
StreamChars == {"a", " ", "\r", "\n"}

RECURSIVE TextsUpTo(_)
TextsUpTo(n) ==
  IF n = 0 THEN {<<>>}
  ELSE LET shorter == TextsUpTo(n - 1)
       IN  shorter \cup {Append(text, c) : text \in shorter, c \in StreamChars}

\* All non-empty chunks of at most MaxChunkLen characters.
StreamChunks == TextsUpTo(MaxChunkLen) \ {<<>>}

ReadStreamChunk(i) ==
  /\ i <= Len(threads)
  /\ threads[i].pc = "body"
  /\ Len(stream) < MaxStreamLen
  /\ \E chunk \in StreamChunks :
       /\ Len(stream) + Len(chunk) <= MaxStreamLen
       /\ ThreadReadText(i, chunk, None)

AssemblerNext ==
  \/ Connect
  \/ \E i \in 1..MaxThreads : ThreadHead(i)
  \/ \E i \in 1..MaxThreads : ReadStreamChunk(i)
  \/ \E i \in 1..MaxThreads : ThreadTextLine(i)

AssemblerSpec == Init /\ [][AssemblerNext]_vars

\* --- the parser: the device formats one line from a marker, tagged values
\* separated by commas, and a closing word.  A value is its text and the
\* number the text denotes, None for a text that denotes none.
FieldTags == {TimeTag, FixedXTag, FixedZTag, FxTag, FzTag}
FieldValues ==
  {[text |-> <<"7">>, value |-> Some(Ratio(7, 1))],
   [text |-> <<"-", "2", ".", "5">>, value |-> Some(Ratio(-5, 2))],
   [text |-> <<"-">>, value |-> None],
   [text |-> <<"1", ".", "2", ".", "3">>, value |-> None]}
ClosingWords == {<<>>, <<"P", "u", "m", "p">>, <<"o", "k">>}

RECURSIVE FieldSeqs(_)
FieldSeqs(n) ==
  IF n = 0 THEN {<<>>}
  ELSE LET shorter == FieldSeqs(n - 1)
       IN  shorter \cup {Append(fields, [tag |-> tag, value |-> value]) :
                           fields \in shorter, tag \in FieldTags,
                           value \in FieldValues}

DeviceTextLines ==
  [marker : BOOLEAN, fields : FieldSeqs(MaxFields), word : ClosingWords]

RECURSIVE FieldsText(_)
FieldsText(fields) ==
  IF fields = <<>> THEN <<>>
  ELSE Head(fields).tag \o Head(fields).value.text
         \o (IF Len(fields) > 1 THEN <<",">> ELSE <<>>) \o FieldsText(Tail(fields))

\* The line without its marker, and the line as sent.
BodyText(line) ==
  FieldsText(line.fields)
    \o (IF line.fields # <<>> /\ line.word # <<>> THEN <<" ">> ELSE <<>>)
    \o line.word
LineText(line) == (IF line.marker THEN <<">">> ELSE <<>>) \o BodyText(line)

\* The device sends one line, terminated by CRLF, to a reading task.
ReadDeviceLine(i) ==
  /\ i <= Len(threads)
  /\ threads[i].pc = "body"
  /\ stream = <<>>
  /\ \E line \in DeviceTextLines :
       ThreadReadText(i, LineText(line) \o CRLF, Some(line))

\* The link is opened once; an open may fail first.
ConnectOnce == ~IsSet(serial_port) /\ Connect

ParserNext ==
  \/ ConnectOnce
  \/ \E i \in 1..MaxThreads : ThreadHead(i)
  \/ \E i \in 1..MaxThreads : ReadDeviceLine(i)
  \/ \E i \in 1..MaxThreads : ThreadTextLine(i)

ParserSpec == Init /\ [][ParserNext]_vars

\* --- the parser called again: the device sends a first line, then sends it
\* again or sends another line, in any order.
RepeatTextLines ==
  [marker : BOOLEAN, fields : FieldSeqs(MaxRepeatFields), word : ClosingWords]

\* The lines parsed in between: a measurement, a status line and a line with
\* a malformed value.
OtherTextLines ==
  {[marker |-> TRUE, word |-> <<>>,
    fields |-> <<[tag |-> FzTag, value |-> [text |-> <<"7">>, value |-> Some(Ratio(7, 1))]]>>],
   [marker |-> FALSE, word |-> <<"P", "u", "m", "p">>, fields |-> <<>>]}

\* The lines the device has sent, each ended by CRLF.
TextLinesSent == Cardinality(Occurrences(stream, CRLF))

ReadFirstLine(i) ==
  /\ i <= Len(threads)
  /\ threads[i].pc = "body"
  /\ stream = <<>>
  /\ \E line \in RepeatTextLines :
       ThreadReadText(i, LineText(line) \o CRLF, Some(line))

ReadLineAgain(i) ==
  /\ i <= Len(threads)
  /\ threads[i].pc = "body"
  /\ IsSet(device_line)
  /\ TextLinesSent < MaxRepeatLines
  /\ ThreadReadText(i, LineText(Val(device_line)) \o CRLF, device_line)

ReadOtherLine(i) ==
  /\ i <= Len(threads)
  /\ threads[i].pc = "body"
  /\ IsSet(device_line)
  /\ TextLinesSent < MaxRepeatLines
  /\ \E line \in OtherTextLines :
       ThreadReadText(i, LineText(line) \o CRLF, device_line)

RepeatNext ==
  \/ ConnectOnce
  \/ \E i \in 1..MaxThreads : ThreadHead(i)
  \/ \E i \in 1..MaxThreads : ReadFirstLine(i)
  \/ \E i \in 1..MaxThreads : ReadLineAgain(i)
  \/ \E i \in 1..MaxThreads : ReadOtherLine(i)
  \/ \E i \in 1..MaxThreads : ThreadTextLine(i)

RepeatSpec == Init /\ [][RepeatNext]_vars

\* --- the remap: the user selects the sensor source, a run is open, and the
\* device sends one well-formed line.
SensorSources == {"simple_fixed", "free_sphere"}

\* TribologyExperimentGUI.on_sensor_source_changed with no device connected:
\* update_config stores the selection of the combobox.
OnSensorSourceChanged ==
  /\ ~is_connected
  /\ \E source \in SensorSources : sensor_source' = source
  /\ UNCHANGED <<sinkVars, readerVars, envVars, histVars, threadVars, cmdVars,
                 textVars, guiVars>>

RemapTextLines ==
  {line \in DeviceTextLines :
     /\ line.word = <<>>
     /\ \A k \in 1..Len(line.fields) : IsSet(line.fields[k].value.value)}

ReadRemapLine(i) ==
  /\ i <= Len(threads)
  /\ threads[i].pc = "body"
  /\ stream = <<>>
  /\ \E line \in RemapTextLines :
       ThreadReadText(i, LineText(line) \o CRLF, Some(line))

RemapNext ==
  \/ OnSensorSourceChanged
  \/ ConnectOnce
  \/ StartExperiment(TRUE)
  \/ \E i \in 1..MaxThreads : ThreadHead(i)
  \/ \E i \in 1..MaxThreads : ReadRemapLine(i)
  \/ \E i \in 1..MaxThreads : ThreadTextLine(i)

RemapSpec == Init /\ [][RemapNext]_vars

\* ------------------------------------------------- batching specification
\* One run of the sink under a device that sends unmarked measurement lines
\* while the run is open, long enough for a batch of FlushEvery rows to fill;
\* the environment may fail a write.
StartFirstRun == runs_started = 0 /\ StartExperiment(TRUE)

\* One pass of the outer loop of _read_data that reads one complete line.
ReadFlushLine ==
  /\ is_experiment_running
  /\ buffer = <<>>
  /\ lines_sent < MaxFlushLines
  /\ buffer' = <<MeasurementFxOnly(lines_sent + 1, FALSE)>>
  /\ stream' = Append(stream, MeasurementFxOnly(lines_sent + 1, FALSE))
  /\ lines_sent' = lines_sent + 1
  /\ UNCHANGED <<sinkVars, data_queue, sensor_source, cmdVars, textVars, now,
                 files, open_count, runs_started, io_failures,
                 plot_max_points_arg, run_ingested, run_log, threadVars,
                 guiVars>>

\* _process_line on the line read; the environment fails a write only among
\* the first MaxFailedLine lines.
ProcessFlushLine ==
  /\ ProcessLine
  /\ io_failures' # io_failures => lines_sent <= MaxFailedLine

FlushNext ==
  \/ StartFirstRun
  \/ StopExperiment
  \/ ClearCurrentData
  \/ ReadFlushLine
  \/ ProcessFlushLine

FlushSpec == Init /\ [][FlushNext]_vars

\* ------------------------------------------------- disconnect specification
\* The owner only connects and disconnects: every reading task is spawned by
\* connect, and the reader flag is cleared by disconnect alone.
DisconnectNext ==
  \/ Connect
  \/ DisconnectStop
  \/ JoinReturn
  \/ DisconnectClose
  \/ \E i \in 1..MaxThreads : ThreadStep(i)

DisconnectSpec == Init /\ [][DisconnectNext]_vars

\* --- the callback raises: the device sends two complete lines in one chunk
\* and the data callback may raise on a Reading.
ReadTwoLines(i) ==
  /\ i <= Len(threads)
  /\ threads[i].pc = "body"
  /\ stream = <<>>
  /\ \E first \in RepeatTextLines, second \in OtherTextLines :
       ThreadReadText(i, LineText(first) \o CRLF \o LineText(second) \o CRLF,
                      Some(first))

\* A reader that catches the callback's exception and goes on with the next
\* line.
AfterCallbackRaisedGoesOn(thread) ==
  [thread EXCEPT !.error = TRUE, !.dispatched = @ + 1]

\* The task after self.data_callback(data) raised: the exception leaves
\* _process_line and the inner loop, the except of _read_data prints it and
\* breaks.
AfterCallbackRaised(thread) ==
  [thread EXCEPT !.pc = "dead", !.error = TRUE, !.dispatched = @ + 1]

\* _process_line on the next complete line when the callback raises: the
\* Reading was put in the queue, the callback was called with it and raised
\* after handing it to the sink (log_status, say, called off the main thread).
ThreadCallbackRaises(i) ==
  /\ i <= Len(threads)
  /\ threads[i].pc = "lines"
  /\ HasTerminator(buffer)
  /\ LET split == SplitBuffer(buffer)
         line == Strip(split.line)
         parsed == ParseDataText(line)
     IN  /\ line # <<>>
         /\ ~parsed.raised
         /\ Surfaces(parsed)
         /\ buffer' = split.rest
         /\ emitted' = Append(emitted, line)
         /\ data_queue' = Append(data_queue, Val(parsed.data))
         /\ HandleSerialData(Val(parsed.data), FALSE)
         /\ threads' = [threads EXCEPT ![i] = AfterCallbackRaised(@)]
  /\ UNCHANGED <<sensor_source, cmdVars, device_line, lines_sent, runs_started,
                 plot_max_points_arg, stream, serial_port, open_ports,
                 is_connected, is_reading, read_thread, ingestVars, uiVars,
                 guiVars>>

CallbackNext ==
  \/ ConnectOnce
  \/ \E i \in 1..MaxThreads : ThreadHead(i)
  \/ \E i \in 1..MaxThreads : ReadTwoLines(i)
  \/ \E i \in 1..MaxThreads : ThreadTextLine(i)
  \/ \E i \in 1..MaxThreads : ThreadCallbackRaises(i)

CallbackSpec == Init /\ [][CallbackNext]_vars

\* ------------------------------------------------------------ save action
\* DataManager.experiment_data: [] after __init__, start_experiment and
\* clear_current_data, and no statement of the program appends to it.
experiment_data == <<>>

\* save_data's test: if self.data_manager.experiment_data:
HasDataToSave == experiment_data # <<>>

\* if not self._live_csv_path or not os.path.exists(self._live_csv_path)
NoLiveLog == ~IsSet(live_csv_path) \/ ~files[Val(live_csv_path)].exists

\* What shutil.copyfile reads: the part of the file that reached the disk.
OnDisk(f) == [f EXCEPT !.rows = SubSeq(f.rows, 1, f.flushed)]

\* DataManager.save_experiment_data(filename): the path it returns (None for
\* the empty string).  The name is joined to the save directory; without a
\* live log the in-memory rows go to a file named after the start time.
SavedPath(filename) ==
  IF NoLiveLog
    THEN IF experiment_data = <<>> THEN None
         ELSE IF IsSet(filename) THEN filename
         ELSE IF IsSet(experiment_start_time)
                THEN Some(LivePath(Val(experiment_start_time)))
                ELSE Some(LivePath(now))
    ELSE IF IsSet(filename) THEN filename ELSE live_csv_path

\* DataManager.save_experiment_data(filename): the file system after it.
FilesAfterSave(filename) ==
  IF NoLiveLog
    THEN IF experiment_data = <<>> THEN files
         ELSE [files EXCEPT ![Val(SavedPath(filename))] =
                 [exists |-> TRUE, header |-> 1, rows |-> experiment_data,
                  flushed |-> Len(experiment_data)]]
    ELSE IF ~IsSet(filename) \/ filename = live_csv_path THEN files
         ELSE [files EXCEPT ![Val(filename)] = OnDisk(files[Val(live_csv_path)])]

\* The answers of asksaveasfilename, as os.path.basename hands them on: no
\* name when the dialog was cancelled.
DialogAnswers == {None} \cup {Some(p) : p \in FilePaths}

\* TribologyExperimentGUI.save_data.  save_result is what the handler did
\* and what save_experiment_data returned.
SaveData ==
  /\ gui_pc = "idle"
  /\ IF HasDataToSave
       THEN \E filename \in DialogAnswers :
              IF IsSet(filename)
                THEN /\ files' = FilesAfterSave(filename)
                     /\ save_result' = Some([outcome |-> "saved",
                                             returned |-> SavedPath(filename)])
                ELSE /\ files' = files
                     /\ save_result' = Some([outcome |-> "cancelled",
                                             returned |-> None])
       ELSE /\ files' = files
            /\ save_result' = Some([outcome |-> "no_data", returned |-> None])
  /\ UNCHANGED <<sinkVars, readerVars, sensor_source, cmdVars, textVars, now,
                 open_count, lines_sent, runs_started, io_failures, histVars,
                 threadVars, gui_is_experiment_running, gui_pc>>

\* Runs of the sink, lines from the device, and the save button.
SaveNext ==
  \/ StartRun
  \/ StopExperiment
  \/ ClearCurrentData
  \/ ReadChunk
  \/ ProcessLine
  \/ SaveData

SaveSpec == Init /\ [][SaveNext]_vars

\* --------------------------------------------- presentation-layer handlers
\* TribologyExperimentGUI runs its handlers one at a time on the Tk thread;
\* the reading task goes on between their statements.  gui_pc is the
\* statement the running handler is at.  The Start button is enabled while
\* gui_is_experiment_running is FALSE and the Stop button while it is TRUE
\* (both are set together with the flag).

\* EXPERIMENT_DURATION_S of the configuration.
ExperimentDurations == 0..MaxDeviceTime

\* start_experiment, up to data_manager.start_experiment(): an open that
\* raises leaves the handler there.
GuiStartSink ==
  /\ gui_pc = "idle"
  /\ ~gui_is_experiment_running
  /\ is_connected
  /\ \E open_ok \in BOOLEAN :
       /\ DataManagerStartExperiment(open_ok)
       /\ gui_pc' = IF open_ok THEN "start_send" ELSE "idle"
  /\ UNCHANGED <<gui_is_experiment_running, save_result>>

\* start_experiment: if self.serial_comm.start_experiment(): ... else
GuiStartSend ==
  /\ gui_pc = "start_send"
  /\ SendCommandWithin(MaxGuiCommands, "start_experiment", StartLiteral)
  /\ IF Val(send_result').returned
       THEN gui_is_experiment_running' = TRUE /\ gui_pc' = "idle"
       ELSE gui_is_experiment_running' = FALSE /\ gui_pc' = "start_failed"
  /\ UNCHANGED save_result

\* start_experiment, after a failed command: data_manager.stop_experiment()
GuiStartFailed ==
  /\ gui_pc = "start_failed"
  /\ DataManagerStopExperiment
  /\ gui_pc' = "idle"
  /\ UNCHANGED <<gui_is_experiment_running, save_result>>

\* stop_experiment: self.serial_comm.stop_experiment()
GuiStopSend ==
  /\ gui_pc = "idle"
  /\ SendCommandWithin(MaxGuiCommands, "stop_experiment", StopLiteral)
  /\ gui_pc' = "stop_sink"
  /\ UNCHANGED <<gui_is_experiment_running, save_result>>

\* stop_experiment from the Stop button.
GuiStopButton == gui_is_experiment_running /\ GuiStopSend

\* update_progress when progress >= 100: it calls stop_experiment.
UpdateProgressStops ==
  /\ gui_is_experiment_running
  /\ \E duration \in ExperimentDurations :
       RatLeq(Hundred, GetExperimentProgress(duration))
  /\ GuiStopSend

\* stop_experiment: data_manager.stop_experiment(), then the flag.
GuiStopSink ==
  /\ gui_pc = "stop_sink"
  /\ DataManagerStopExperiment
  /\ gui_is_experiment_running' = FALSE
  /\ gui_pc' = "idle"
  /\ UNCHANGED save_result

\* clear_data, confirmed: data_manager.clear_current_data(); the rest
\* redraws the plots and the progress bar.
ClearData ==
  /\ gui_pc = "idle"
  /\ DataManagerClearCurrentData
  /\ UNCHANGED guiVars

\* One pass of the outer loop of _read_data that reads one timed line.
ReadGuiLine == lines_sent < MaxGuiLines /\ ReadTimedLine

\* The handlers of the window on one link, and the device's lines.
GuiNext ==
  \/ ConnectOnce
  \/ GuiStartSink
  \/ GuiStartSend
  \/ GuiStartFailed
  \/ UpdateProgressStops
  \/ GuiStopButton
  \/ GuiStopSink
  \/ ClearData
  \/ ReadGuiLine
  \/ ProcessLine

GuiSpec == Init /\ [][GuiNext]_vars

\* ================================================================ properties
\* The records handed to add_data_point since the run started, in order.
RunData == [i \in 1..Len(run_ingested) |-> run_ingested[i].data]

\* The last n elements of a sequence (all of it when it is shorter).
LastUpTo(seq, n) ==
  IF Len(seq) <= n THEN seq ELSE SubSeq(seq, Len(seq) - n + 1, Len(seq))

\* What the snapshot shows of one record: a missing time as 0, a missing force
\* as NaN (None).
PlotEntry(data) ==
  [time |-> IF IsSet(data.time) THEN Val(data.time) ELSE 0,
   force_x |-> data.force_x, force_z |-> data.force_z,
   timestamp |-> Val(data.timestamp)]

PlotEntries(seq) == [i \in 1..Len(seq) |-> PlotEntry(seq[i])]

\* The four columns of a frame have one length.
FrameAligned(frame) ==
  /\ Len(frame.force_x) = Len(frame.time)
  /\ Len(frame.force_z) = Len(frame.time)
  /\ Len(frame.timestamp) = Len(frame.time)

\* The rows of a frame, oldest first.
FrameEntries(frame) ==
  [i \in 1..Len(frame.time) |->
     [time |-> frame.time[i], force_x |-> frame.force_x[i],
      force_z |-> frame.force_z[i], timestamp |-> frame.timestamp[i]]]

\* The snapshot shows exactly the given records.
SnapshotShows(seq) ==
  /\ FrameAligned(GetCurrentData)
  /\ Len(GetCurrentData.time) = Len(seq)
  /\ FrameEntries(GetCurrentData) = PlotEntries(seq)

\* The data rows of the run's log file (none when the run has no log path).
RunLogRows ==
  IF IsSet(live_csv_path) THEN files[Val(live_csv_path)].rows ELSE <<>>

\* The run's log was opened and no write to it has failed.
LogWritable ==
  /\ IsSet(run_log)
  /\ \A i \in 1..Len(run_ingested) : ~run_ingested[i].failed

AllMeasurements == \A i \in 1..Len(RunData) : IsMeasurement(RunData[i])
AllMarked == \A i \in 1..Len(RunData) : RunData[i].is_experiment

C2_Original ==
  /\ Len(plot_time) <= plot_max_points_arg
  /\ Len(plot_fx) <= plot_max_points_arg
  /\ Len(plot_fz) <= plot_max_points_arg
  /\ Len(plot_timestamp) <= plot_max_points_arg
  /\ Len(GetCurrentData.time) <= plot_max_points_arg

\* C2: in every reachable state the four live-buffer columns and the four
\* snapshot columns hold at most the configured capacity, which is the
\* plot_max_points value given at construction raised to the constructor's
\* floor.
C2_BufferWithinCapacity ==
  /\ plot_max_points >= plot_max_points_arg
  /\ plot_max_points >= MinPlotPoints
  /\ plot_max_points \in {plot_max_points_arg, MinPlotPoints}
  /\ Len(plot_time) <= plot_max_points
  /\ Len(plot_fx) <= plot_max_points
  /\ Len(plot_fz) <= plot_max_points
  /\ Len(plot_timestamp) <= plot_max_points
  /\ Len(GetCurrentData.time) <= plot_max_points
  /\ Len(GetCurrentData.force_x) <= plot_max_points
  /\ Len(GetCurrentData.force_z) <= plot_max_points
  /\ Len(GetCurrentData.timestamp) <= plot_max_points

\* A sink constructed below the floor whose buffer is full after more pushes
\* than it can hold.
C2_Witness ==
  /\ plot_max_points_arg < plot_max_points
  /\ Len(plot_time) = plot_max_points
  /\ Len(GetCurrentData.timestamp) = plot_max_points
  /\ Len(SelectSeq(RunData, LAMBDA d : d.is_experiment)) > plot_max_points

\* ----------------------------------------------------------------------- C3
\* A step in which add_data_point took a record while the sink was Running,
\* and that record.
IngestStep == Len(run_ingested') = Len(run_ingested) + 1
Ingested == run_ingested'[Len(run_ingested')].data

\* The ring buffer q became q2 by one append of x, the oldest entry evicted
\* when q was full.
Appended(q, q2, x) ==
  q2 = (IF Len(q) >= plot_max_points THEN SubSeq(q, 2, Len(q)) ELSE q) \o <<x>>

\* The step pushed the ingested record and published the new snapshot.
PushedAndPublished ==
  /\ Appended(plot_time, plot_time', PlotEntry(Ingested).time)
  /\ Appended(plot_fx, plot_fx', Ingested.force_x)
  /\ Appended(plot_fz, plot_fz', Ingested.force_z)
  /\ Appended(plot_timestamp, plot_timestamp', Val(Ingested.timestamp))
  /\ current_data' = [time |-> plot_time', force_x |-> plot_fx',
                      force_z |-> plot_fz', timestamp |-> plot_timestamp']

LiveUnchanged ==
  UNCHANGED <<plot_time, plot_fx, plot_fz, plot_timestamp, current_data>>

C4_OneRowPerReading ==
  (is_experiment_running /\ IsSet(csv_writer) /\ LogWritable)
    => /\ files[Val(csv_file)].rows = RunData
       /\ files[Val(csv_file)].header = 1
       /\ rows_written = Len(RunData)

\* A Running sink whose log holds the rows of a measurement and of a status
\* Reading, one of them unmarked.
C4_Witness ==
  /\ is_experiment_running
  /\ IsSet(csv_writer)
  /\ LogWritable
  /\ Len(files[Val(csv_file)].rows) = Len(RunData)
  /\ \E i \in 1..Len(RunData) : IsMeasurement(RunData[i])
  /\ \E i \in 1..Len(RunData) : IsSet(RunData[i].message)
  /\ \E i \in 1..Len(RunData) : ~RunData[i].is_experiment

\* ----------------------------------------------------------------------- C5
\* The lines the reader has processed, and the Readings decoded from them.
Processed == SubSeq(stream, 1, Len(stream) - Len(buffer))
Recognised == SelectSeq(Processed, LAMBDA line : IsSet(ParseDataLine(line)))
Decoded == [i \in 1..Len(Recognised) |-> Val(ParseDataLine(Recognised[i]))]

RawIds(seq) == [i \in 1..Len(seq) |-> seq[i].raw]

\* The records of the run whose log write did not fail.
LoggedData ==
  LET ok == SelectSeq(run_ingested, LAMBDA e : ~e.failed)
  IN  [i \in 1..Len(ok) |-> ok[i].data]

MarkedData == SelectSeq(RunData, LAMBDA d : d.is_experiment)

\* C5: Readings reach the sink in the order their lines were decoded. The
\* reader's queue holds exactly the decoded Readings in order; the records the
\* sink took in the run are a run of consecutive decoded Readings (the latest
\* ones while the sink is Running); the log's rows are those records in that
\* order, without the ones whose write failed; the live buffer and the
\* snapshot hold the latest marked ones in that order.
C5_DecodeOrderPreserved ==
  /\ LET decoded == Decoded
         n == Len(run_ingested)
     IN  /\ data_queue = decoded
         /\ n <= Len(decoded)
         /\ \E k \in (IF is_experiment_running THEN {Len(decoded) - n}
                       ELSE 0..(Len(decoded) - n)) :
              \A i \in 1..n : run_ingested[i].data.raw = decoded[k + i].raw
  /\ IsSet(run_log) => RawIds(files[Val(run_log)].rows) = RawIds(LoggedData)
  /\ SnapshotShows(LastUpTo(MarkedData, plot_max_points))
  /\ current_data = [time |-> plot_time, force_x |-> plot_fx,
                     force_z |-> plot_fz, timestamp |-> plot_timestamp]

\* Two lines read in one chunk and a dropped line between Readings: the log
\* and the snapshot each hold two Readings.
C5_Witness ==
  /\ is_experiment_running
  /\ IsSet(run_log)
  /\ Len(files[Val(run_log)].rows) >= 2
  /\ Len(GetCurrentData.time) >= 2
  /\ Len(data_queue) < Len(Processed)
  /\ files[Val(run_log)].rows[2].raw > files[Val(run_log)].rows[1].raw + 1

\* ----------------------------------------------------------------------- C6
\* The write of the ingested record failed.
WriteFailed == run_ingested'[Len(run_ingested')].failed

DispatchStep == Len(data_queue') = Len(data_queue) + 1

\* C7: ingest is a no-op unless the sink is Running: a Reading handed to the
\* sink while it is Idle leaves the log files, the row counter, the live
\* buffer, the snapshot and every other field of the sink unchanged.
C7_IngestIdleNoOp ==
  [][(DispatchStep /\ ~is_experiment_running) =>
       UNCHANGED <<sinkVars, files, open_count>>]_vars

\* A Reading dispatched after the run was stopped: it is in the reader's
\* queue, not in the stopped run's log and not in the snapshot.
C7_Witness ==
  /\ ~is_experiment_running
  /\ IsSet(live_csv_path)
  /\ RunLogRows # <<>>
  /\ data_queue # <<>>
  /\ data_queue[Len(data_queue)].is_experiment
  /\ data_queue[Len(data_queue)].raw > RunLogRows[Len(RunLogRows)].raw
  /\ Len(GetCurrentData.time) < plot_max_points
  /\ rows_written = Len(RunLogRows)

\* ----------------------------------------------------------------------- C8
\* A step of start_experiment.
StartStep == runs_started' = runs_started + 1

\* C8: each run has its own log file: a later start_experiment never
\* truncates or overwrites the log rows of an earlier run.
C8_RunsNeverShareLog ==
  [][StartStep =>
       \A p \in LogPaths : files[p].rows # <<>> => files'[p].rows = files[p].rows]_vars

\* ----------------------------------------------------------------------- C9
\* C9: start_experiment leaves the sink Running with an empty live buffer and
\* an empty snapshot, a newly opened log that holds the header once and no
\* data row, the row counter at 0, and no other log open.
C9_StartOpensFreshLog ==
  [][StartStep =>
       /\ is_experiment_running'
       /\ plot_time' = <<>> /\ plot_fx' = <<>>
       /\ plot_fz' = <<>> /\ plot_timestamp' = <<>>
       /\ current_data' = EmptyFrame
       /\ IsSet(csv_file') /\ csv_writer' = csv_file'
       /\ IsSet(csv_file') =>
            /\ live_csv_path' = csv_file'
            /\ files'[Val(csv_file')].exists
            /\ files'[Val(csv_file')].header = 1
            /\ files'[Val(csv_file')].rows = <<>>
       /\ rows_written' = 0
       /\ open_count' = 1]_vars

SinkAsConstructed(running, start_time, t, fx, fz, ts, frame, path, file, writer, rows) ==
  /\ running = FALSE
  /\ start_time = None
  /\ t = <<>> /\ fx = <<>> /\ fz = <<>> /\ ts = <<>>
  /\ frame = EmptyFrame
  /\ path = None
  /\ file = None
  /\ writer = None
  /\ rows = 0

\* C11: after clear_current_data, whatever the prior state, the sink equals a
\* freshly constructed one: Idle, empty live buffer and snapshot, no open log
\* (an open one was flushed and closed), no log path, row counter 0, and the
\* run's start timestamp unset.
C11_ClearEqualsConstructed ==
  [][ClearCurrentData =>
       /\ SinkAsConstructed(is_experiment_running', experiment_start_time',
                            plot_time', plot_fx', plot_fz', plot_timestamp',
                            current_data', live_csv_path', csv_file',
                            csv_writer', rows_written')
       /\ open_count' = 0
       /\ IsSet(csv_file) =>
            files'[Val(csv_file)].flushed = Len(files[Val(csv_file)].rows)]_vars

\* ---------------------------------------------------------------------- C12
\* The total_duration values progress is asked with.
TotalDurations == MinTotalDuration..MaxTotalDuration

\* C12: after any sequence of start_experiment, add_data_point and
\* stop_experiment, clear_current_data followed at once by get_statistics
\* gives the empty dict, and get_experiment_progress gives 0 for every
\* total_duration.
C12_ClearThenStatisticsEmpty ==
  [][ClearCurrentData =>
       /\ (DOMAIN GetStatistics)' = {}
       /\ \A total \in TotalDurations : GetExperimentProgress(total)' = Zero]_vars

\* A cleared sink after a run that logged and published Readings: no log
\* path, yet a log file with rows on disk, and no statistics.
C12_Witness ==
  /\ runs_started > 0
  /\ ~is_experiment_running
  /\ live_csv_path = None
  /\ \E p \in LogPaths :
       \E i \in 1..Len(files[p].rows) : files[p].rows[i].is_experiment
  /\ DOMAIN GetStatistics = {}
  /\ \A total \in TotalDurations : GetExperimentProgress(total) = Zero

\* ---------------------------------------------------------------------- C13
\* A measurement was ingested in the run.
MeasurementIngested == \E i \in 1..Len(RunData) : IsMeasurement(RunData[i])

\* C13: for every reachable sink state and every total_duration,
\* get_experiment_progress lies in [0, 100], and it is 0 whenever the sink is
\* not Running, no measurement was ingested in the run, or total_duration <= 0.
C13_ProgressInRange ==
  \A total \in TotalDurations :
    LET progress == GetExperimentProgress(total)
    IN  /\ RatLeq(Zero, progress)
        /\ RatLeq(progress, Hundred)
        /\ (~is_experiment_running \/ ~MeasurementIngested \/ total <= 0)
             => RatEq(progress, Zero)

\* ---------------------------------------------------------------------- C14
\* The time values of the measurements ingested since start_experiment.
MeasurementTimes ==
  LET timed == SelectSeq(RunData, LAMBDA d : IsMeasurement(d) /\ IsSet(d.time))
  IN  [i \in 1..Len(timed) |-> Val(timed[i].time)]

\* The time column the snapshot must show: of the marked Readings of the run,
\* the latest plot_max_points, a missing time as 0.
ShownTimes ==
  LET shown == PlotEntries(LastUpTo(MarkedData, plot_max_points))
  IN  [i \in 1..Len(shown) |-> shown[i].time]

\* min(100, 100 * t / total)
ProgressAt(t, total) ==
  IF 100 * t <= 100 * total THEN Ratio(100 * t, total) ELSE Ratio(100, 1)

\* C14 as stated: while Running with a measurement ingested and
\* total_duration > 0, progress is min(100, 100 * T / total_duration) for T
\* the largest time among all measurements ingested since start_experiment,
\* evicted ones included.
C14_Original ==
  \A total \in TotalDurations :
    (is_experiment_running /\ MeasurementTimes # <<>> /\ total > 0)
      => RatEq(GetExperimentProgress(total),
               ProgressAt(SeqMax(MeasurementTimes), total))

\* C14: while Running with total_duration > 0, progress is
\* min(100, 100 * T / total_duration) for T the largest time among the
\* entries the live buffer holds: the latest plot_max_points Readings of the
\* run that carried the experiment marker, one without a time counting as 0.
\* It is 0 while the run has ingested no marked Reading.
C14_ProgressFromLiveBuffer ==
  \A total \in TotalDurations :
    (is_experiment_running /\ total > 0)
      => IF ShownTimes = <<>>
           THEN GetExperimentProgress(total) = Zero
           ELSE RatEq(GetExperimentProgress(total),
                      ProgressAt(SeqMax(ShownTimes), total))

\* A run whose largest time was evicted from the live buffer: progress is
\* between 0 and 100 for a total the evicted time had reached.
C14_Witness ==
  /\ is_experiment_running
  /\ Len(MarkedData) > plot_max_points
  /\ MeasurementTimes # <<>>
  /\ SeqMax(MeasurementTimes) > SeqMax(ShownTimes)
  /\ \E total \in TotalDurations :
       /\ total > 0
       /\ SeqMax(MeasurementTimes) >= total
       /\ ~RatLeq(GetExperimentProgress(total), Zero)
       /\ ~RatLeq(Hundred, GetExperimentProgress(total))

\* ---------------------------------------------------------------------- C15
\* Every measurement ingested in the run carries a time, and the times
\* increase.
IncreasingTimes ==
  /\ \A i \in 1..Len(RunData) : IsMeasurement(RunData[i]) => IsSet(RunData[i].time)
  /\ \A i, j \in 1..Len(MeasurementTimes) :
       i < j => MeasurementTimes[i] < MeasurementTimes[j]

\* C15: within one run whose ingested measurements have increasing time
\* values, for a fixed total_duration get_experiment_progress never decreases
\* from one add_data_point to the next, evictions included, and never exceeds
\* 100.
C15_ProgressMonotone ==
  [][(IngestStep /\ is_experiment_running /\ IncreasingTimes') =>
       \A total \in TotalDurations :
         /\ RatLeq(GetExperimentProgress(total), GetExperimentProgress(total)')
         /\ RatLeq(GetExperimentProgress(total)', Hundred)]_vars

\* ---------------------------------------------------------------------- C16
\* What the live buffer shows of the marked Readings the reader dispatched,
\* in dispatch order.
DispatchedEntries ==
  LET marked == SelectSeq(data_queue, LAMBDA d : d.is_experiment)
  IN  [i \in 1..Len(marked) |->
         PlotEntry(Stamped(MappedRecord(marked[i], sensor_source)))]

\* A frame that is not torn: its four columns have one length, each of its
\* rows is, whole, one dispatched Reading, and the rows are in dispatch order.
WholeFrame(frame) ==
  LET rows == FrameEntries(frame)
      sent == DispatchedEntries
  IN  /\ FrameAligned(frame)
      /\ \A i \in 1..Len(rows) : \E j \in 1..Len(sent) : sent[j] = rows[i]
      /\ \A i \in 1..(Len(rows) - 1) :
           \E j, k \in 1..Len(sent) :
             j < k /\ sent[j] = rows[i] /\ sent[k] = rows[i + 1]

\* C16: a get_current_data of the presentation thread while the reading task
\* is inside add_data_point returns the snapshot published before that call
\* or the one it publishes, never a torn one.  The published snapshot and
\* every snapshot returned are whole; the reading task changes the published
\* snapshot in one step only, the assignment of the finished frame, whose
\* newest row is the Reading being ingested; and no step of the reading task
\* alters a snapshot already returned.
C16_SnapshotNeverTorn ==
  /\ [](/\ WholeFrame(GetCurrentData)
        /\ IsSet(ui_snapshot) => WholeFrame(Val(ui_snapshot).frame))
  /\ [][IngestAction =>
          /\ ui_snapshot' = ui_snapshot
          /\ \/ current_data' = current_data
             \/ /\ ingest_pc = "frame"
                /\ WholeFrame(current_data')
                /\ Len(current_data'.time) > 0 =>
                     FrameEntries(current_data')[Len(current_data'.time)] =
                       PlotEntry(Val(ingest_data))]_vars
  /\ [][UiGetCurrentData => Val(ui_snapshot').frame = current_data]_vars

\* A snapshot with a row in it taken while the reading task was inside
\* add_data_point; the task has since published a longer snapshot and the one
\* returned is as it was.
C16_Witness ==
  /\ IsSet(ui_snapshot)
  /\ Val(ui_snapshot).during_ingest
  /\ Len(Val(ui_snapshot).frame.time) >= 1
  /\ ingest_pc = "idle"
  /\ Len(current_data.time) > Len(Val(ui_snapshot).frame.time)
  /\ FrameEntries(Val(ui_snapshot).frame) =
       SubSeq(FrameEntries(current_data), 1, Len(Val(ui_snapshot).frame.time))

\* ---------------------------------------------------------------------- C17
\* C17: under any interleaving of add_data_point on the reading task with
\* start_experiment, stop_experiment or clear_current_data on the presentation
\* thread, the four columns have one length whenever the frame is built, and
\* add_data_point never raises.
C17_IngestRaceFree ==
  /\ ingest_pc = "frame" => FrameBuilds(ingest_cols)
  /\ ingest_pc # "dead"

\* ---------------------------------------------------------------------- C18
\* A step that spawned a reading task.
SpawnStep == Len(threads') = Len(threads) + 1

\* C18: under any sequence of connect, start_reading, stop_reading and
\* disconnect, a join that timed out included, at most one reading task is
\* alive, and a task is spawned only when the link is connected and no task
\* is running.
C18_AtMostOneReadingTask ==
  /\ [](Cardinality(AliveThreads) <= 1)
  /\ [][SpawnStep => (is_connected' /\ AliveThreads = {})]_vars

\* ---------------------------------------------------------------------- C19
\* The caller is inside the bounded join of stop_reading.
Joining == ui_pc \in {"stop_join", "disconnect_join"}

\* C19: cancellation always completes: once stop_reading has cleared the flag
\* and waits for the task, that task eventually exits, and the wait itself
\* eventually returns whether or not the task has exited.
C19_StopCompletes ==
  /\ \A i \in 1..MaxThreads :
       (Joining /\ read_thread = Some(i)) ~> (i <= Len(threads) /\ ~Alive(i))
  /\ Joining ~> ~Joining

\* ---------------------------------------------------------------------- C20
\* A reading task ended on a read or decode error.
ErrorExit == \E i \in 1..Len(threads) : threads[i].error

\* A step in which connect opened the link (and called start_reading).
ConnectStep == Len(open_ports') = Len(open_ports) + 1

\* C20: a read or decode error terminates the reading task and nothing
\* restarts it; once the caller has connected again, which calls
\* start_reading, exactly one reading task is running.
C20_RestartAfterError ==
  /\ [][\A i \in 1..Len(threads) :
          (threads'[i].error /\ ~threads[i].error)
            => (~Alive(i)' /\ Len(threads') = Len(threads))]_vars
  /\ [][\A i \in 1..Len(threads) : ~Alive(i) => ~Alive(i)']_vars
  /\ [][(ConnectStep /\ ErrorExit /\ AliveThreads = {})
          => Cardinality(AliveThreads') = 1]_vars

\* ---------------------------------------------------------------------- C21
\* A step in which connect returned False, and one in which it returned True.
ConnectFailedStep == connect_result' = Some(FALSE) /\ connect_result # Some(FALSE)
ConnectSucceededStep == Len(open_ports') = Len(open_ports) + 1

\* C21: an open that fails (invalid or busy endpoint) returns False without
\* raising, leaves the connection flag as it was, Disconnected when it was
\* Disconnected, opens nothing and starts no reading task; the flag goes from
\* Disconnected to Connected only in a connect whose open succeeded, and a
\* reading task is started only on a connected link.
C21_FailedOpenStaysDisconnected ==
  /\ [][ConnectFailedStep =>
          /\ is_connected' = is_connected
          /\ threads' = threads
          /\ open_ports' = open_ports
          /\ serial_port' = serial_port]_vars
  /\ [][(~is_connected /\ is_connected') =>
          (ConnectSucceededStep /\ connect_result' = Some(TRUE))]_vars
  /\ [][Len(threads') > Len(threads) => is_connected']_vars

\* A connect failed on an instance that was never connected.
C21_Witness ==
  /\ connect_result = Some(FALSE)
  /\ ~is_connected
  /\ serial_port = None
  /\ threads = <<>>

\* ---------------------------------------------------------------------- C22
\* The link as a completed disconnect leaves it: Disconnected, the reader
\* Stopped, the port of the connection closed (or never opened).
LinkClosed ==
  /\ ~is_connected
  /\ ~is_reading
  /\ IsSet(serial_port) => ~open_ports[Val(serial_port)]

\* The fields of the connection.
LinkFields == <<serial_port, open_ports, is_connected, is_reading, read_thread>>

\* A step of disconnect or stop_reading (the owner moves inside the call).
CloseStep == ui_pc' # ui_pc

\* C22: disconnect raises nothing and ends with the link Disconnected, the
\* reader Stopped and the port closed; called again, or on an instance that
\* was never connected, every step of it leaves the fields of the connection
\* as they were.
C22_DisconnectIdempotent ==
  /\ [][(ui_pc = "disconnect_close" /\ ui_pc' = "idle") => LinkClosed']_vars
  /\ [][(LinkClosed /\ CloseStep) => (LinkFields' = LinkFields /\ LinkClosed')]_vars
  /\ [][(ui_pc = "disconnect_join" /\ CloseStep) => ui_pc' = "disconnect_close"]_vars

\* The second of two disconnects in a row, about to return: the link was
\* connected once and is closed already.
C22_Witness ==
  /\ ui_pc = "disconnect_close"
  /\ LinkClosed
  /\ IsSet(serial_port)
  /\ connect_result = Some(TRUE)

\* ---------------------------------------------------------------------- C23
\* The links that are open.
OpenLinks == {p \in 1..Len(open_ports) : open_ports[p]}

\* C23: at most one link is open at any time; a connect on a Connected
\* instance opens no second link, and every open link is the one the
\* connection owns.
C23_AtMostOneOpenLink ==
  /\ [][is_connected => Len(open_ports') = Len(open_ports)]_vars
  /\ [](Cardinality(OpenLinks) <= 1)
  /\ [](\A p \in OpenLinks : serial_port = Some(p))

\* ---------------------------------------------------------------------- C24
\* A step of send_command: the call record or the bytes of a link changed.
SendStep ==
  \/ send_result' # send_result
  \/ (Len(port_out') = Len(port_out) /\ port_out' # port_out)

\* C24: send_command returns False and writes nothing when the link is not
\* Connected; when it returns True it has written exactly the text and one
\* line feed to the link of the connection; when it returns False it has
\* written that or nothing (write or flush failed) and has not raised;
\* start_experiment and stop_experiment are send_command on "3" and "stop".
C24_SendWritesOneLine ==
  [][SendStep =>
       LET sent == Val(send_result')
           written == [port_out EXCEPT ![Val(serial_port)] =
                         Append(@, sent.command \o <<"\n">>)]
       IN  /\ IsSet(send_result')
           /\ ~is_connected => (~sent.returned /\ port_out' = port_out)
           /\ sent.returned => (is_connected /\ port_out' = written)
           /\ (~sent.returned /\ is_connected) => port_out' \in {port_out, written}
           /\ sent.call = "start_experiment" => sent.command = <<"3">>
           /\ sent.call = "stop_experiment" => sent.command = <<"s", "t", "o", "p">>
           /\ UNCHANGED linkVars]_vars

\* stop_experiment returned True: the link of the connection received the
\* bytes of "stop\n" last.
C24_Witness ==
  /\ IsSet(send_result)
  /\ Val(send_result).call = "stop_experiment"
  /\ Val(send_result).returned
  /\ IsSet(serial_port)
  /\ port_out[Val(serial_port)] # <<>>
  /\ port_out[Val(serial_port)][Len(port_out[Val(serial_port)])]
       = <<"s", "t", "o", "p", "\n">>

\* ---------------------------------------------------------------------- C25
\* The line feeds in a sequence of bytes.
LineFeeds(bytes) == Cardinality({k \in 1..Len(bytes) : bytes[k] = "\n"})

AtRest == \A i \in 1..Len(threads) : threads[i].pc # "lines"

\* The lines the inner loop of _read_data hands on when a text arrives as one
\* chunk in an empty buffer.
RECURSIVE LinesOf(_)
LinesOf(buf) ==
  IF ~HasTerminator(buf) THEN <<>>
  ELSE LET split == SplitBuffer(buf)
           line == Strip(split.line)
       IN  (IF line = <<>> THEN <<>> ELSE <<line>>) \o LinesOf(split.rest)

\* C26: the lines handed on do not depend on chunk boundaries: however the
\* stream was cut into chunks, once the buffer holds no complete line the
\* lines emitted are those the whole stream gives when fed as one chunk.
C26_ChunkingIndependent == AtRest => emitted = LinesOf(stream)

\* ---------------------------------------------------------------------- C27
\* The place of the first CR or LF of a text, 0 when it has none.
FirstTerminator(text) ==
  LET at == {i \in 1..Len(text) : text[i] \in {"\r", "\n"}}
  IN  IF at = {} THEN 0 ELSE Least(at)

\* The non-blank lines of a stream in which every CRLF, LF and CR ends a
\* line, and the text after its last terminator.
RECURSIVE TerminatedLines(_)
TerminatedLines(text) ==
  LET i == FirstTerminator(text)
      line == Strip(SubSeq(text, 1, i - 1))
  IN  IF i = 0 THEN <<>>
      ELSE (IF line = <<>> THEN <<>> ELSE <<line>>)
             \o TerminatedLines(SubSeq(text, i + 1, Len(text)))
RECURSIVE Unterminated(_)
Unterminated(text) ==
  LET i == FirstTerminator(text)
  IN  IF i = 0 THEN text ELSE Unterminated(SubSeq(text, i + 1, Len(text)))

\* C27: every emitted line is non-blank and holds no CR or LF; each CRLF, LF
\* or CR of the stream ends exactly one line, blank lines are dropped, and
\* the text after the last terminator stays in the buffer.
C27_LinesCleanAndComplete ==
  /\ \A k \in 1..Len(emitted) :
       /\ Strip(emitted[k]) # <<>>
       /\ FirstTerminator(emitted[k]) = 0
  /\ AtRest => (emitted = TerminatedLines(stream) /\ buffer = Unterminated(stream))

\* ---------------------------------------------------------------- C28
\* The device line of the behaviour has been read and taken out of the
\* buffer by the inner loop.
LineProcessed ==
  /\ IsSet(device_line)
  /\ buffer = <<>>
  /\ AtRest

\* The Readings the reading tasks passed to the callback.
RECURSIVE DispatchedUpTo(_)
DispatchedUpTo(n) ==
  IF n = 0 THEN 0 ELSE threads[n].dispatched + DispatchedUpTo(n - 1)

\* A status Reading of the device line sent: its message is the line without
\* the marker, it has no force field, and the line holds a status keyword
\* in any case of letters (the tags hold none, so the closing word is one).
IsStatusOf(reading, sent) ==
  /\ reading.message = Some(BodyText(sent))
  /\ \A key \in {"fixed_x", "fx", "fixed_z", "fz", "force_x", "force_z"} :
       ~IsSet(reading[key])
  /\ Lower(sent.word) \in Keywords

\* C28: what the parser makes of a line is exactly one of a measurement
\* Reading (a force set, no message), a status Reading (the message is the
\* line without its marker, no force field is set, and the line holds a
\* status keyword, case-insensitively) or nothing; a line of which it makes
\* nothing is neither enqueued nor passed to the callback.
C28_ParseOutcomes ==
  LineProcessed =>
    LET sent == Val(device_line)
        surfaced == IsSet(ParseDataText(LineText(sent)).data)
    IN  /\ Len(data_queue) = DispatchedUpTo(Len(threads))
        /\ Len(data_queue) = (IF surfaced THEN 1 ELSE 0)
        /\ \A k \in 1..Len(data_queue) :
             \/ IsMeasurement(data_queue[k]) /\ ~IsSet(data_queue[k].message)
             \/ ~IsMeasurement(data_queue[k]) /\ IsStatusOf(data_queue[k], sent)

\* A line that holds only the word "Pump" has been processed and surfaced as a
\* status Reading.
C28_Witness ==
  /\ LineProcessed
  /\ Val(device_line).fields = <<>>
  /\ Val(device_line).word = <<"P", "u", "m", "p">>
  /\ Len(data_queue) = 1
  /\ IsStatusOf(data_queue[1], Val(device_line))

\* ---------------------------------------------------------------- C29
\* The number the device sent under a tag: that of the first field with the
\* tag, None when the line carries no such field.
SentValue(sent, tag) ==
  LET at == {k \in 1..Len(sent.fields) : sent.fields[k].tag = tag}
  IN  IF at = {} THEN None ELSE sent.fields[Least(at)].value.value

\* Two optional numbers are the same number, or both absent.
SameValue(a, b) ==
  IF IsSet(a) /\ IsSet(b) THEN RatEq(Val(a), Val(b)) ELSE a = b

\* The canonical force the claim states for an axis.
SentForce(sent, fixed, short) ==
  IF IsSet(SentValue(sent, fixed)) THEN SentValue(sent, fixed)
  ELSE SentValue(sent, short)

\* C29: in the Reading made of a device line, force_x (force_z) is the
\* Fixed_X (Fixed_Z) value when the line carries one, else the Fx (Fz) value,
\* else absent; fixed_x, fixed_z, fx and fz each hold the value of their own
\* tag and nothing when the line lacks that tag, also when it carries the
\* other naming; is_experiment tells whether the line began with '>', and
\* raw is the line without that marker.
C29_CanonicalForce ==
  LineProcessed =>
    \A k \in 1..Len(data_queue) :
      LET reading == data_queue[k]
          sent == Val(device_line)
      IN  /\ SameValue(reading.force_x, SentForce(sent, FixedXTag, FxTag))
          /\ SameValue(reading.force_z, SentForce(sent, FixedZTag, FzTag))
          /\ SameValue(reading.fixed_x, SentValue(sent, FixedXTag))
          /\ SameValue(reading.fixed_z, SentValue(sent, FixedZTag))
          /\ SameValue(reading.fx, SentValue(sent, FxTag))
          /\ SameValue(reading.fz, SentValue(sent, FzTag))
          /\ reading.is_experiment = sent.marker
          /\ reading.raw = BodyText(sent)

\* A marked line with Fx:7 before Fixed_X:-2.5 has been processed: the
\* canonical force is the fixed-naming value and fx keeps its own.
C29_Witness ==
  /\ LineProcessed
  /\ Val(device_line).marker
  /\ Len(Val(device_line).fields) = 2
  /\ Val(device_line).fields[1].tag = FxTag
  /\ Val(device_line).fields[2].tag = FixedXTag
  /\ Len(data_queue) = 1
  /\ data_queue[1].is_experiment
  /\ SameValue(data_queue[1].fx, Some(Ratio(7, 1)))
  /\ SameValue(data_queue[1].force_x, Some(Ratio(-5, 2)))
  /\ SameValue(data_queue[1].fixed_x, Some(Ratio(-5, 2)))

\* ---------------------------------------------------------------- C30
\* The line sent carries a matched value whose text denotes no number.
SentMalformed(sent) ==
  \E k \in 1..Len(sent.fields) : ~IsSet(sent.fields[k].value.value)

\* C30: a matched value that denotes no number is a local failure: once the
\* line is processed no reading task has ended on an exception, and a force
\* the same line carries in a well-formed field has been extracted and
\* surfaced in a Reading.
C30_ParseFailureLocal ==
  (LineProcessed /\ SentMalformed(Val(device_line))) =>
    LET sent == Val(device_line)
        force_x == SentForce(sent, FixedXTag, FxTag)
        force_z == SentForce(sent, FixedZTag, FzTag)
    IN  /\ \A i \in 1..Len(threads) : ~threads[i].error
        /\ (IsSet(force_x) \/ IsSet(force_z)) =>
             /\ Len(data_queue) = 1
             /\ SameValue(data_queue[1].force_x, force_x)
             /\ SameValue(data_queue[1].force_z, force_z)

\* ---------------------------------------------------------------- C31
\* The line a Reading was made of: its raw text behind the marker.
LineOfReading(reading) ==
  (IF reading.is_experiment THEN <<">">> ELSE <<>>) \o reading.raw

\* How often a line was handed to the parser, and how many Readings of it
\* reached the queue.
TimesParsed(line) == Cardinality({k \in 1..Len(emitted) : emitted[k] = line})
TimesSurfaced(line) ==
  Cardinality({k \in 1..Len(data_queue) : LineOfReading(data_queue[k]) = line})

SelectedForce(sent, fixed, short) ==
  IF sensor_source = "free_sphere" THEN SentForce(sent, short, fixed)
  ELSE SentForce(sent, fixed, short)

\* The fields the remap passes through.
PassedFields ==
  {"is_experiment", "raw", "time", "fixed_x", "fixed_z", "fx", "fz", "message"}

\* The device line was ingested by the sink.
LineIngested == LineProcessed /\ Len(run_ingested) = 1 /\ Len(data_queue) = 1

\* C32: in the record the sink received, force_x is, with source
\* free_sphere, the Fx value when the line carries one and else the
\* canonical force, with any other source the Fixed_X value when present
\* and else the canonical force, and likewise force_z; every other field is
\* that of the Reading; the Reading in the reader's queue still carries the
\* parser's canonical forces and no timestamp.
C32_RemapBySource ==
  LineIngested =>
    LET sent == Val(device_line)
        record == run_ingested[1].data
        reading == data_queue[1]
    IN  /\ SameValue(record.force_x, SelectedForce(sent, FixedXTag, FxTag))
        /\ SameValue(record.force_z, SelectedForce(sent, FixedZTag, FzTag))
        /\ \A key \in PassedFields : record[key] = reading[key]
        /\ SameValue(reading.force_x, SentForce(sent, FixedXTag, FxTag))
        /\ SameValue(reading.force_z, SentForce(sent, FixedZTag, FzTag))
        /\ ~IsSet(reading.timestamp)

\* With source free_sphere a line carrying Fixed_X and Fx was ingested: the
\* sink's record has the Fx value, the Reading keeps the Fixed_X value.
C32_Witness ==
  /\ LineIngested
  /\ sensor_source = "free_sphere"
  /\ IsSet(data_queue[1].fx)
  /\ IsSet(data_queue[1].fixed_x)
  /\ ~SameValue(data_queue[1].fx, data_queue[1].fixed_x)
  /\ SameValue(run_ingested[1].data.force_x, data_queue[1].fx)
  /\ SameValue(data_queue[1].force_x, data_queue[1].fixed_x)
  /\ IsSet(run_ingested[1].data.timestamp)

DisconnectReturns == ui_pc = "disconnect_close" /\ ui_pc' = "idle"

\* A task that was still alive when a disconnect returned and the owner has
\* connected again since: it is alive and is not the task of the last spawn
\* (in this specification a task is spawned only by a connect that follows a
\* disconnect).
Outlived(i) == Alive(i) /\ read_thread # Some(i)

\* C34: disconnect ends with the connection flag and the reader flag cleared
\* and the port closed, also when the join timed out; a task that outlived
\* the disconnect never passes the loop check again and dispatches nothing.
C34_DisconnectEnds ==
  [][/\ DisconnectReturns =>
          /\ ~is_connected'
          /\ ~is_reading'
          /\ IsSet(serial_port') => ~open_ports'[Val(serial_port')]
     /\ \A i \in 1..Len(threads) :
          Outlived(i) =>
            /\ threads[i].pc = "head" => threads'[i].pc # "body"
            /\ threads'[i].dispatched = threads[i].dispatched]_vars

\* ---------------------------------------------------------------- C35
\* C35: the reader flag agrees with the task: whenever is_reading is set, a
\* reading task is alive (so start_reading, which does nothing while the flag
\* is set, never leaves a connected link without a task).
C35_FlagAgreesWithTask == is_reading => AliveThreads # {}

\* ---------------------------------------------------------------- C36
\* C36: whenever the sink is Running a log is open: a start_experiment whose
\* open failed does not leave the run flag set with no log to write to.
C36_RunningHasLog == is_experiment_running => (IsSet(csv_file) /\ IsSet(csv_writer))

\* ---------------------------------------------------------------- C37
\* The sink is Idle and the presentation thread is in no handler: no run was
\* started yet, or stop_experiment or clear_current_data has returned.
StoppedAndReturned == ~is_experiment_running /\ ui_pc = "idle"

\* A step of the reading task inside add_data_point.
IngestStatement == ingest_pc # "idle" /\ ingest_pc' # ingest_pc

\* C37: once stop_experiment or clear_current_data has returned, no statement
\* of an ingest changes the live buffer, the published snapshot or the log,
\* also when the ingest had passed the Running check before.
C37_NoIngestAfterStop ==
  [][(StoppedAndReturned /\ IngestStatement) =>
       UNCHANGED <<plot_time, plot_fx, plot_fz, plot_timestamp, current_data,
                   files>>]_vars

\* ---------------------------------------------------------------- C38
\* C38: every Reading put in the queue was passed to the callback while its
\* line was processed, one Reading for one line; a task in which an exception
\* was raised has terminated; and once the task has terminated, on a raise
\* of the callback too, the queue keeps the Readings put in it and no
\* further line is dispatched, the rest of the chunk included.
C38_CallbackRaiseEndsTask ==
  /\ [](/\ Len(data_queue) = DispatchedUpTo(Len(threads))
        /\ \A i \in 1..Len(threads) : threads[i].error => ~Alive(i))
  /\ [][/\ Len(data_queue') > Len(data_queue) =>
             /\ Len(data_queue') = Len(data_queue) + 1
             /\ Len(emitted') = Len(emitted) + 1
             /\ LineOfReading(data_queue'[Len(data_queue')]) = emitted'[Len(emitted')]
        /\ (threads # <<>> /\ AliveThreads = {}) =>
             UNCHANGED <<data_queue, emitted>>]_vars

\* The callback raised on the Reading of the first line: that Reading is in
\* the queue, the task is dead, and the second line is still in the buffer.
C38_Witness ==
  /\ Len(threads) = 1
  /\ threads[1].error
  /\ ~Alive(1)
  /\ threads[1].dispatched = 1
  /\ Len(emitted) = 1
  /\ Len(data_queue) = 1
  /\ LineOfReading(data_queue[1]) = emitted[1]
  /\ HasTerminator(buffer)

\* C39: when the save action is taken after a run that wrote at least one
\* row to the log (the run is stopped, the live log is still named), the
\* handler does not answer "no data": it reaches save_experiment_data
\* unless the dialog is cancelled, the path returned names a file holding the
\* rows of the log, and the live log is left as it was.
RunLogged ==
  /\ ~is_experiment_running
  /\ IsSet(live_csv_path)
  /\ files[Val(live_csv_path)].rows # <<>>

SaveStep == save_result' # save_result

C39_SaveReachesLog ==
  [][(SaveStep /\ RunLogged) =>
       LET r == Val(save_result')
           live == Val(live_csv_path)
       IN  /\ r.outcome # "no_data"
           /\ r.outcome = "saved" =>
                /\ IsSet(r.returned)
                /\ files'[Val(r.returned)].rows = files[live].rows
                /\ files'[live] = files[live]]_vars

\* C40: whenever no handler of the window is under way, the window's run
\* flag equals the sink's; a handler that ends after a failed start command
\* leaves both Idle; and a stop, automatic or not, makes one stop call and
\* ends with the window's flag down, so that no second automatic stop
\* follows it.
RunFlagsAgree ==
  gui_pc = "idle" => (gui_is_experiment_running <=> is_experiment_running)

FailedStartEnds == gui_pc = "start_failed" /\ gui_pc' = "idle"

StopEnds == gui_pc = "stop_sink" /\ gui_pc' = "idle"

StopCallMade ==
  /\ IsSet(send_result)
  /\ Val(send_result).call = "stop_experiment"

C40_RunFlagsAgree ==
  /\ []RunFlagsAgree
  /\ [][FailedStartEnds =>
          ~gui_is_experiment_running' /\ ~is_experiment_running']_vars
  /\ [][StopEnds => StopCallMade /\ ~gui_is_experiment_running']_vars

====
